---- MODULE Spec2Model ----
(***************************************************************************)
(* The area-file loader of slackmud2 (src/src/area/parser.rs) as a state   *)
(* machine.  A text is a sequence of characters (one-character strings), a *)
(* file is a sequence of lines.  The cursor `pos` is the index of the next *)
(* line the Peekable<Lines> iterator would yield.  Every sub-parser is an  *)
(* operator from (lines, cursor) to a result record                        *)
(*   [ok, val, err, pos, tl]                                               *)
(* where pos is the cursor after the call and tl the set of line indexes   *)
(* that ended a tilde string during the call.                              *)
(***************************************************************************)
EXTENDS Integers, Sequences, FiniteSets, TLC

VARIABLES
    entry,   \* the function under call: parse_area_file, parse_area_header, read_until_tilde
    lines,   \* content.lines()
    pos,     \* the cursor: index of the line lines.peek() shows, Len(lines) + 1 at the end
    area,    \* the local AreaFile of parse_area_file
    status,  \* "running" while the called function runs, "done" once it has returned
    ret,     \* the returned value
    last,    \* the sub-parser call of the latest dispatcher iteration
    tildes,  \* the indexes of the lines that ended a tilde string so far
    db,      \* the tables areas, rooms and exits of the database
    req      \* the import requests in progress, each at its next await

vars == <<entry, lines, pos, area, status, ret, last, tildes, db, req>>

(* ------------------------------ text ---------------------------------- *)

NL == "\n"

IsWhitespace(c) == c \in {" ", "\t", NL}

NonAscii == "U+00E9"

Utf8Len(c) == IF c = NonAscii THEN 2 ELSE 1

RECURSIVE ByteLen(_)
ByteLen(s) == IF s = <<>> THEN 0 ELSE Utf8Len(Head(s)) + ByteLen(Tail(s))

RECURSIVE TrimStart(_)
TrimStart(s) ==
    IF s = <<>> THEN s
    ELSE IF IsWhitespace(Head(s)) THEN TrimStart(Tail(s)) ELSE s

RECURSIVE TrimEnd(_)
TrimEnd(s) ==
    IF s = <<>> THEN s
    ELSE IF IsWhitespace(s[Len(s)]) THEN TrimEnd(SubSeq(s, 1, Len(s) - 1)) ELSE s

Trim(s) == TrimEnd(TrimStart(s))

StartsWith(s, p) == Len(s) >= Len(p) /\ SubSeq(s, 1, Len(p)) = p

EndsWithChar(s, c) == s # <<>> /\ s[Len(s)] = c

RECURSIVE TrimEndMatches(_, _)
TrimEndMatches(s, c) ==
    IF EndsWithChar(s, c) THEN TrimEndMatches(SubSeq(s, 1, Len(s) - 1), c) ELSE s

RECURSIVE SplitWs(_, _, _)
SplitWs(s, cur, acc) ==
    IF s = <<>> THEN (IF cur = <<>> THEN acc ELSE Append(acc, cur))
    ELSE IF IsWhitespace(Head(s))
         THEN SplitWs(Tail(s), <<>>, IF cur = <<>> THEN acc ELSE Append(acc, cur))
         ELSE SplitWs(Tail(s), Append(cur, Head(s)), acc)

split_whitespace(s) == SplitWs(s, <<>>, <<>>)

(* ------------------------------ i32 ----------------------------------- *)

I32Max == 2147483647

Digits == <<"0", "1", "2", "3", "4", "5", "6", "7", "8", "9">>

IsDigit(c) == \E d \in 1..10 : Digits[d] = c

DigitVal(c) == (CHOOSE d \in 1..10 : Digits[d] = c) - 1

NoInt == [ok |-> FALSE, val |-> 0]

\* checked accumulation, as core::num does it: the positive branch adds the
\* digit, the negative branch subtracts it, and an overflow is an error
RECURSIVE ParseDigits(_, _, _)
ParseDigits(s, acc, neg) ==
    IF s = <<>> THEN [ok |-> TRUE, val |-> acc]
    ELSE IF ~IsDigit(Head(s)) THEN NoInt
    ELSE LET d == DigitVal(Head(s)) IN
         IF neg
         THEN IF acc < -((I32Max - 7) \div 10) \/ (acc = -((I32Max - 7) \div 10) /\ d > 8)
              THEN NoInt
              ELSE ParseDigits(Tail(s), acc * 10 - d, neg)
         ELSE IF acc > (I32Max - 7) \div 10 \/ (acc = (I32Max - 7) \div 10 /\ d > 7)
              THEN NoInt
              ELSE ParseDigits(Tail(s), acc * 10 + d, neg)

parse_i32(tok) ==
    IF tok = <<>> THEN NoInt
    ELSE IF Head(tok) \in {"+", "-"}
         THEN (IF Len(tok) = 1 THEN NoInt ELSE ParseDigits(Tail(tok), 0, Head(tok) = "-"))
         ELSE ParseDigits(tok, 0, FALSE)

(* --------------------------- result records --------------------------- *)

Ok(v, p, t) == [ok |-> TRUE, val |-> v, err |-> "", pos |-> p, tl |-> t]

Err(e, p) == [ok |-> FALSE, val |-> <<>>, err |-> e, pos |-> p, tl |-> {}]

\* the elements of a sequence
Range(s) == {s[k] : k \in DOMAIN s}

\* `let x = v; F(x)` with v evaluated once
Bind(v, F(_)) == CHOOSE y \in {F(x) : x \in {v}} : TRUE

\* `let x = r?; F(x)`: the error of r is returned at once
Try(r, F(_)) == CHOOSE y \in {IF x.ok THEN F(x) ELSE x : x \in {r}} : TRUE

(* ------------------------ tilde-string primitive ---------------------- *)

\* mutant: lines pushed with no newline between them
PushLine_noNewline(result, text) == result \o text

PushLine(result, text) == IF result # <<>> THEN result \o <<NL>> \o text ELSE result \o text

\* mutant: the end of input ends the field like a terminating line
RECURSIVE ReadTildeLoop_eofEnds(_, _, _)
ReadTildeLoop_eofEnds(ls, p, result) ==
    IF p > Len(ls) THEN Ok(Trim(result), p, {})
    ELSE LET line == ls[p] IN
         IF EndsWithChar(TrimEnd(line), "~")
         THEN LET without_tilde == TrimEndMatches(TrimEnd(line), "~")
                  final == IF without_tilde # <<>> THEN PushLine(result, without_tilde)
                           ELSE result
              IN Ok(Trim(final), p + 1, {p})
         ELSE Bind(PushLine(result, line),
                   LAMBDA pushed : ReadTildeLoop_eofEnds(ls, p + 1, pushed))

RECURSIVE ReadTildeLoop(_, _, _)
ReadTildeLoop(ls, p, result) ==
    IF p > Len(ls) THEN Err("UnexpectedEof", p)
    ELSE LET line == ls[p] IN
         IF EndsWithChar(TrimEnd(line), "~")
         THEN LET without_tilde == TrimEndMatches(TrimEnd(line), "~")
                  final == IF without_tilde # <<>> THEN PushLine(result, without_tilde)
                           ELSE result
              IN Ok(Trim(final), p + 1, {p})
         ELSE Bind(PushLine(result, line), LAMBDA pushed : ReadTildeLoop(ls, p + 1, pushed))

\* mutant: running out of input is reported as a missing field
read_until_tilde_eofMissingField(ls, p) ==
    Bind(ReadTildeLoop(ls, p, <<>>), LAMBDA r :
    IF r.ok THEN r ELSE Err("MissingField", r.pos))

read_until_tilde(ls, p) == ReadTildeLoop(ls, p, <<>>)

(* ------------------------------ header -------------------------------- *)

\* lines.next().ok_or(UnexpectedEof)?, then F on the line and the cursor after it
NextLine(ls, p, F(_, _)) == IF p > Len(ls) THEN Err("UnexpectedEof", p) ELSE F(ls[p], p + 1)

\* mutant: a range with min above max is refused
parse_area_header_ordered(ls, p) ==
    Try(read_until_tilde(ls, p), LAMBDA filename :
    Try(read_until_tilde(ls, filename.pos), LAMBDA name :
    Try(read_until_tilde(ls, name.pos), LAMBDA credits :
    NextLine(ls, credits.pos, LAMBDA vnum_line, q :
    Bind(split_whitespace(vnum_line), LAMBDA parts :
    IF Len(parts) < 2 THEN Err("MissingField", q) ELSE
    Bind(<<parse_i32(parts[1]), parse_i32(parts[2])>>, LAMBDA n :
    IF ~n[1].ok \/ ~n[2].ok THEN Err("ParseInt", q) ELSE
    IF n[1].val > n[2].val THEN Err("InvalidVnum", q) ELSE
    Ok([filename |-> filename.val, name |-> name.val, credits |-> credits.val,
        min_vnum |-> n[1].val, max_vnum |-> n[2].val],
       q, filename.tl \cup name.tl \cup credits.tl)))))))

parse_area_header(ls, p) ==
    Try(read_until_tilde(ls, p), LAMBDA filename :
    Try(read_until_tilde(ls, filename.pos), LAMBDA name :
    Try(read_until_tilde(ls, name.pos), LAMBDA credits :
    NextLine(ls, credits.pos, LAMBDA vnum_line, q :
    Bind(split_whitespace(vnum_line), LAMBDA parts :
    IF Len(parts) < 2 THEN Err("MissingField", q) ELSE
    Bind(<<parse_i32(parts[1]), parse_i32(parts[2])>>, LAMBDA n :
    IF ~n[1].ok \/ ~n[2].ok THEN Err("ParseInt", q) ELSE
    Ok([filename |-> filename.val, name |-> name.val, credits |-> credits.val,
        min_vnum |-> n[1].val, max_vnum |-> n[2].val],
       q, filename.tl \cup name.tl \cup credits.tl)))))))

(* ------------------------- primitive readers -------------------------- *)

RoomFlagOf(ch) ==
    CASE ch = "D" -> {"DARK"}
      [] ch = "C" -> {"NO_RECALL"}
      [] ch = "S" -> {"SAFE"}
      [] ch = "B" -> {"BANK"}
      [] ch = "J" -> {"PRIVATE"}
      [] ch = "K" -> {"NO_MOB"}
      [] ch = "L" -> {"LAW"}
      [] ch = "A" -> {"ARENA"}
      [] ch = "G" -> {"GODS_ONLY"}
      [] ch = "H" -> {"HEROES_ONLY"}
      [] ch = "N" -> {"NEWBIES_ONLY"}
      [] ch = "O" -> {"SOLITARY"}
      [] ch = "P" -> {"PET_SHOP"}
      [] ch = "I" -> {"INDOORS"}
      [] OTHER -> {}

\* mutant: only the first letter of the flags is decoded
RoomFlags_from_str_first(flags_str) ==
    IF flags_str = <<>> THEN {} ELSE RoomFlagOf(flags_str[1])

RoomFlags_from_str(flags_str) == UNION {RoomFlagOf(flags_str[i]) : i \in 1..Len(flags_str)}

SectorNames ==
    <<"Inside", "City", "Field", "Forest", "Hills", "Mountain", "WaterSwim",
      "WaterNoSwim", "Underwater", "Air", "Desert">>

\* Option<SectorType>: a sequence of zero or one element
SectorType_from_code(code) ==
    IF code >= 0 /\ code <= 10 THEN <<SectorNames[code + 1]>> ELSE <<>>

DirectionNames == <<"North", "East", "South", "West", "Up", "Down">>

Direction_from_code(code) ==
    IF code >= 0 /\ code <= 5 THEN <<DirectionNames[code + 1]>> ELSE <<>>

\* a value or an error, for the readers that take one line
Val(v) == [ok |-> TRUE, val |-> v, err |-> ""]

Bad(e) == [ok |-> FALSE, val |-> <<>>, err |-> e]

parse_room_attributes(line) ==
    LET parts == split_whitespace(line) IN
    IF Len(parts) < 3 THEN Bad("InvalidRoomAttributes") ELSE
    LET area_vnum == parse_i32(parts[1]) IN
    IF ~area_vnum.ok THEN Bad("ParseInt") ELSE
    LET code == parse_i32(parts[3]) IN
    IF ~code.ok THEN Bad("ParseInt") ELSE
    LET sector == SectorType_from_code(code.val) IN
    IF sector = <<>> THEN Bad("InvalidSectorType") ELSE
    Val([area_vnum |-> area_vnum.val, room_flags |-> RoomFlags_from_str(parts[2]),
         sector_type |-> sector[1]])

\* &trimmed[1..2] is a byte slice: it aborts the call when byte 2 falls inside
\* a multi-byte character
parse_direction(line) ==
    LET trimmed == Trim(line) IN
    IF ~StartsWith(trimmed, <<"D">>) \/ ByteLen(trimmed) < 2 THEN Bad("InvalidDirection") ELSE
    IF Utf8Len(trimmed[2]) > 1 THEN Bad("panic") ELSE
    LET dir_code == parse_i32(<<trimmed[2]>>) IN
    IF ~dir_code.ok THEN Bad("InvalidDirection") ELSE
    LET d == Direction_from_code(dir_code.val) IN
    IF d = <<>> THEN Bad("InvalidDirection") ELSE Val(d[1])

\* mutant: the line is not trimmed
parse_vnum_untrimmed(line) ==
    IF ~StartsWith(line, <<"#">>) THEN Bad("InvalidVnum") ELSE
    LET n == parse_i32(Tail(line)) IN
    IF ~n.ok THEN Bad("InvalidVnum") ELSE Val(n.val)

parse_vnum(line) ==
    LET trimmed == Trim(line) IN
    IF ~StartsWith(trimmed, <<"#">>) THEN Bad("InvalidVnum") ELSE
    LET n == parse_i32(Tail(trimmed)) IN
    IF ~n.ok THEN Bad("InvalidVnum") ELSE Val(n.val)

(* ------------------------------- rooms -------------------------------- *)

\* mutant: an empty keyword is kept as a keyword
parse_exit_emptyKeyword(ls, p) ==
    NextLine(ls, p, LAMBDA dir_line, p1 :
    Bind(parse_direction(dir_line), LAMBDA direction :
    IF ~direction.ok THEN Err(direction.err, p1) ELSE
    Try(read_until_tilde(ls, p1), LAMBDA description :
    Try(read_until_tilde(ls, description.pos), LAMBDA keyword_raw :
    NextLine(ls, keyword_raw.pos, LAMBDA exit_data, q :
    Bind(split_whitespace(exit_data), LAMBDA parts :
    IF Len(parts) < 3 THEN Err("InvalidExitData", q) ELSE
    Bind(<<parse_i32(parts[1]), parse_i32(parts[2]), parse_i32(parts[3])>>, LAMBDA n :
    IF ~n[1].ok \/ ~n[2].ok \/ ~n[3].ok THEN Err("ParseInt", q) ELSE
    Ok([direction |-> direction.val, description |-> description.val,
        keyword |-> <<keyword_raw.val>>,
        door_flags |-> n[1].val, key_vnum |-> n[2].val, to_room |-> n[3].val],
       q, description.tl \cup keyword_raw.tl))))))))

parse_exit(ls, p) ==
    NextLine(ls, p, LAMBDA dir_line, p1 :
    Bind(parse_direction(dir_line), LAMBDA direction :
    IF ~direction.ok THEN Err(direction.err, p1) ELSE
    Try(read_until_tilde(ls, p1), LAMBDA description :
    Try(read_until_tilde(ls, description.pos), LAMBDA keyword_raw :
    NextLine(ls, keyword_raw.pos, LAMBDA exit_data, q :
    Bind(split_whitespace(exit_data), LAMBDA parts :
    IF Len(parts) < 3 THEN Err("InvalidExitData", q) ELSE
    Bind(<<parse_i32(parts[1]), parse_i32(parts[2]), parse_i32(parts[3])>>, LAMBDA n :
    IF ~n[1].ok \/ ~n[2].ok \/ ~n[3].ok THEN Err("ParseInt", q) ELSE
    Ok([direction |-> direction.val, description |-> description.val,
        keyword |-> IF keyword_raw.val = <<>> THEN <<>> ELSE <<keyword_raw.val>>,
        door_flags |-> n[1].val, key_vnum |-> n[2].val, to_room |-> n[3].val],
       q, description.tl \cup keyword_raw.tl))))))))

\* called with the cursor on the `E` line, which it consumes
parse_extra_desc(ls, p) ==
    Try(read_until_tilde(ls, p + 1), LAMBDA keywords_raw :
    Try(read_until_tilde(ls, keywords_raw.pos), LAMBDA description :
    Ok([keywords |-> split_whitespace(keywords_raw.val), description |-> description.val],
       description.pos, keywords_raw.tl \cup description.tl)))

\* mutant: a new exit is put in front of the earlier ones
RECURSIVE RoomBodyLoop_newestFirst(_, _, _, _, _)
RoomBodyLoop_newestFirst(ls, p, exits, extra_descs, tl) ==
    IF p > Len(ls) THEN Ok([exits |-> exits, extra_descs |-> extra_descs], p, tl) ELSE
    Bind(Trim(ls[p]), LAMBDA trimmed :
    IF trimmed = <<"S">> THEN Ok([exits |-> exits, extra_descs |-> extra_descs], p + 1, tl)
    ELSE IF StartsWith(trimmed, <<"D">>)
    THEN Try(parse_exit(ls, p), LAMBDA e :
         RoomBodyLoop_newestFirst(ls, e.pos, <<e.val>> \o exits, extra_descs, tl \cup e.tl))
    ELSE IF trimmed = <<"E">>
    THEN Try(parse_extra_desc(ls, p), LAMBDA x :
         RoomBodyLoop_newestFirst(ls, x.pos, exits, Append(extra_descs, x.val), tl \cup x.tl))
    ELSE RoomBodyLoop_newestFirst(ls, p + 1, exits, extra_descs, tl))

\* the loop of parse_single_room after the attributes line
RECURSIVE RoomBodyLoop(_, _, _, _, _)
RoomBodyLoop(ls, p, exits, extra_descs, tl) ==
    IF p > Len(ls) THEN Ok([exits |-> exits, extra_descs |-> extra_descs], p, tl) ELSE
    Bind(Trim(ls[p]), LAMBDA trimmed :
    IF trimmed = <<"S">> THEN Ok([exits |-> exits, extra_descs |-> extra_descs], p + 1, tl)
    ELSE IF StartsWith(trimmed, <<"D">>)
    THEN Try(parse_exit(ls, p), LAMBDA e :
         RoomBodyLoop(ls, e.pos, Append(exits, e.val), extra_descs, tl \cup e.tl))
    ELSE IF trimmed = <<"E">>
    THEN Try(parse_extra_desc(ls, p), LAMBDA x :
         RoomBodyLoop(ls, x.pos, exits, Append(extra_descs, x.val), tl \cup x.tl))
    ELSE RoomBodyLoop(ls, p + 1, exits, extra_descs, tl))

parse_single_room(ls, p) ==
    NextLine(ls, p, LAMBDA vnum_line, p1 :
    Bind(parse_vnum(vnum_line), LAMBDA vnum :
    IF ~vnum.ok THEN Err(vnum.err, p1) ELSE
    Try(read_until_tilde(ls, p1), LAMBDA name :
    Try(read_until_tilde(ls, name.pos), LAMBDA description :
    NextLine(ls, description.pos, LAMBDA attr_line, p2 :
    Bind(parse_room_attributes(attr_line), LAMBDA attrs :
    IF ~attrs.ok THEN Err(attrs.err, p2) ELSE
    Try(RoomBodyLoop(ls, p2, <<>>, <<>>, {}), LAMBDA body :
    Ok([vnum |-> vnum.val, name |-> name.val, description |-> description.val,
        area_vnum |-> attrs.val.area_vnum, room_flags |-> attrs.val.room_flags,
        sector_type |-> attrs.val.sector_type, exits |-> body.val.exits,
        extra_descs |-> body.val.extra_descs],
       body.pos, name.tl \cup description.tl \cup body.tl))))))))

M_RESETS == <<"#", "R", "E", "S", "E", "T", "S">>
M_MOBILES == <<"#", "M", "O", "B", "I", "L", "E", "S">>
M_OBJECTS == <<"#", "O", "B", "J", "E", "C", "T", "S">>
M_ROOMS == <<"#", "R", "O", "O", "M", "S">>
M_SHOPS == <<"#", "S", "H", "O", "P", "S">>
M_SPECIALS == <<"#", "S", "P", "E", "C", "I", "A", "L", "S">>
M_AREA == <<"#", "A", "R", "E", "A">>
M_END == <<"#", "$">>
M_ZERO == <<"#", "0">>

\* mutant: #OBJECTS is missing from the list
RoomsSectionEnd_noObjects(trimmed) ==
    \/ StartsWith(trimmed, M_RESETS)
    \/ StartsWith(trimmed, M_MOBILES)
    \/ StartsWith(trimmed, M_SHOPS)
    \/ StartsWith(trimmed, M_SPECIALS)
    \/ StartsWith(trimmed, M_END)
    \/ trimmed = M_ZERO

RoomsSectionEnd(trimmed) ==
    \/ StartsWith(trimmed, M_RESETS)
    \/ StartsWith(trimmed, M_MOBILES)
    \/ StartsWith(trimmed, M_OBJECTS)
    \/ StartsWith(trimmed, M_SHOPS)
    \/ StartsWith(trimmed, M_SPECIALS)
    \/ StartsWith(trimmed, M_END)
    \/ trimmed = M_ZERO

RECURSIVE RoomsLoop(_, _, _, _)
RoomsLoop(ls, p, rooms, tl) ==
    IF p > Len(ls) THEN Ok(rooms, p, tl) ELSE
    Bind(Trim(ls[p]), LAMBDA trimmed :
    IF RoomsSectionEnd(trimmed) THEN Ok(rooms, p, tl)
    ELSE IF StartsWith(trimmed, <<"#">>) /\ ByteLen(trimmed) > 1
    THEN Try(parse_single_room(ls, p), LAMBDA r :
         RoomsLoop(ls, r.pos, Append(rooms, r.val), tl \cup r.tl))
    ELSE RoomsLoop(ls, p + 1, rooms, tl))

\* mutant: the line that ends the section is consumed
parse_rooms_pastEnd(ls, p) ==
    Bind(RoomsLoop(ls, p, <<>>, {}), LAMBDA r :
    IF r.ok /\ r.pos <= Len(ls) THEN Ok(r.val, r.pos + 1, r.tl) ELSE r)

parse_rooms(ls, p) == RoomsLoop(ls, p, <<>>, {})

(* ------------------------------ objects ------------------------------- *)

Get(parts, i, default) == IF i <= Len(parts) THEN parts[i] ELSE default

parse_object_type_line(line) ==
    LET parts == split_whitespace(line) IN
    IF parts = <<>> THEN Bad("InvalidObjectType") ELSE
    Val([item_type |-> parts[1], extra_flags |-> Get(parts, 2, <<"0">>),
         wear_flags |-> Get(parts, 3, <<"A">>)])

IsQuote(c) == c \in {"'", "\""}

RECURSIVE TrimStartQuotes(_)
TrimStartQuotes(s) ==
    IF s # <<>> /\ IsQuote(Head(s)) THEN TrimStartQuotes(Tail(s)) ELSE s

\* mutant: quotes are removed at the front only
TrimEndQuotes_kept(s) == s

RECURSIVE TrimEndQuotes(_)
TrimEndQuotes(s) ==
    IF s # <<>> /\ IsQuote(s[Len(s)]) THEN TrimEndQuotes(SubSeq(s, 1, Len(s) - 1)) ELSE s

IntOrZero(tok) == LET n == parse_i32(tok) IN IF n.ok THEN n.val ELSE 0

\* mutant: a token that is no integer makes the line fail
parse_object_values_line_strict(line) ==
    LET parts == split_whitespace(line)
        value2_raw == Get(parts, 3, <<"0">>)
        n == [i \in {1, 2, 4, 5} |-> parse_i32(Get(parts, i, <<"0">>))]
    IN
    IF \E i \in {1, 2, 4, 5} : ~n[i].ok THEN Bad("ParseInt") ELSE
    Val([value0 |-> n[1].val,
         value1 |-> n[2].val,
         value2 |-> IF IsQuote(Head(value2_raw))
                    THEN TrimEndQuotes(TrimStartQuotes(value2_raw))
                    ELSE value2_raw,
         value3 |-> n[4].val,
         value4 |-> n[5].val])

parse_object_values_line(line) ==
    LET parts == split_whitespace(line)
        value2_raw == Get(parts, 3, <<"0">>)
    IN
    Val([value0 |-> IntOrZero(Get(parts, 1, <<"0">>)),
         value1 |-> IntOrZero(Get(parts, 2, <<"0">>)),
         value2 |-> IF IsQuote(Head(value2_raw))
                    THEN TrimEndQuotes(TrimStartQuotes(value2_raw))
                    ELSE value2_raw,
         value3 |-> IntOrZero(Get(parts, 4, <<"0">>)),
         value4 |-> IntOrZero(Get(parts, 5, <<"0">>))])

\* mutant: a number that does not parse is taken as 0
parse_object_weight_line_defaults(line) ==
    LET parts == split_whitespace(line) IN
    IF Len(parts) < 4 THEN Bad("InvalidObjectWeightCost") ELSE
    Val([weight |-> IntOrZero(parts[1]), cost |-> IntOrZero(parts[2]),
         level |-> IntOrZero(parts[3]), condition |-> parts[4]])

parse_object_weight_line(line) ==
    LET parts == split_whitespace(line) IN
    IF Len(parts) < 4 THEN Bad("InvalidObjectWeightCost") ELSE
    LET weight == parse_i32(parts[1])
        cost == parse_i32(parts[2])
        level == parse_i32(parts[3])
    IN
    IF ~weight.ok \/ ~cost.ok \/ ~level.ok THEN Bad("ParseInt") ELSE
    Val([weight |-> weight.val, cost |-> cost.val, level |-> level.val,
         condition |-> parts[4]])

\* mutant: the `#` line that ends the object is consumed with it
RECURSIVE ObjectTailLoop_pastMarker(_, _, _, _)
ObjectTailLoop_pastMarker(ls, p, extra_descriptions, tl) ==
    IF p > Len(ls) THEN Ok(extra_descriptions, p, tl) ELSE
    Bind(Trim(ls[p]), LAMBDA trimmed :
    IF trimmed = <<"E">>
    THEN Try(parse_extra_desc(ls, p), LAMBDA x :
         ObjectTailLoop_pastMarker(ls, x.pos, Append(extra_descriptions, x.val), tl \cup x.tl))
    ELSE IF StartsWith(trimmed, <<"#">>) THEN Ok(extra_descriptions, p + 1, tl)
    ELSE ObjectTailLoop_pastMarker(ls, p + 1, extra_descriptions, tl))

\* the loop of parse_single_object after the fixed fields
RECURSIVE ObjectTailLoop(_, _, _, _)
ObjectTailLoop(ls, p, extra_descriptions, tl) ==
    IF p > Len(ls) THEN Ok(extra_descriptions, p, tl) ELSE
    Bind(Trim(ls[p]), LAMBDA trimmed :
    IF trimmed = <<"E">>
    THEN Try(parse_extra_desc(ls, p), LAMBDA x :
         ObjectTailLoop(ls, x.pos, Append(extra_descriptions, x.val), tl \cup x.tl))
    ELSE IF StartsWith(trimmed, <<"#">>) THEN Ok(extra_descriptions, p, tl)
    ELSE ObjectTailLoop(ls, p + 1, extra_descriptions, tl))

parse_single_object(ls, p) ==
    NextLine(ls, p, LAMBDA vnum_line, p1 :
    Bind(parse_vnum(vnum_line), LAMBDA vnum :
    IF ~vnum.ok THEN Err(vnum.err, p1) ELSE
    Try(read_until_tilde(ls, p1), LAMBDA keywords :
    Try(read_until_tilde(ls, keywords.pos), LAMBDA short_description :
    Try(read_until_tilde(ls, short_description.pos), LAMBDA long_description :
    Try(read_until_tilde(ls, long_description.pos), LAMBDA material :
    NextLine(ls, material.pos, LAMBDA type_line, p2 :
    Bind(parse_object_type_line(type_line), LAMBDA type :
    IF ~type.ok THEN Err(type.err, p2) ELSE
    NextLine(ls, p2, LAMBDA values_line, p3 :
    Bind(parse_object_values_line(values_line), LAMBDA values :
    NextLine(ls, p3, LAMBDA weight_line, p4 :
    Bind(parse_object_weight_line(weight_line), LAMBDA wcl :
    IF ~wcl.ok THEN Err(wcl.err, p4) ELSE
    Try(ObjectTailLoop(ls, p4, <<>>, {}), LAMBDA tail :
    Ok([vnum |-> vnum.val, keywords |-> keywords.val,
        short_description |-> short_description.val,
        long_description |-> long_description.val, material |-> material.val,
        item_type |-> type.val.item_type, extra_flags |-> type.val.extra_flags,
        wear_flags |-> type.val.wear_flags,
        value0 |-> values.val.value0, value1 |-> values.val.value1,
        value2 |-> values.val.value2, value3 |-> values.val.value3,
        value4 |-> values.val.value4,
        weight |-> wcl.val.weight, cost |-> wcl.val.cost, level |-> wcl.val.level,
        condition |-> wcl.val.condition, extra_descriptions |-> tail.val],
       tail.pos,
       keywords.tl \cup short_description.tl \cup long_description.tl
           \cup material.tl \cup tail.tl))))))))))))))

ObjectsSectionEnd(trimmed) ==
    \/ StartsWith(trimmed, M_RESETS)
    \/ StartsWith(trimmed, M_MOBILES)
    \/ StartsWith(trimmed, M_ROOMS)
    \/ StartsWith(trimmed, M_SHOPS)
    \/ StartsWith(trimmed, M_SPECIALS)
    \/ StartsWith(trimmed, M_END)
    \/ trimmed = M_ZERO

RECURSIVE ObjectsLoop(_, _, _, _)
ObjectsLoop(ls, p, objects, tl) ==
    IF p > Len(ls) THEN Ok(objects, p, tl) ELSE
    Bind(Trim(ls[p]), LAMBDA trimmed :
    IF ObjectsSectionEnd(trimmed) THEN Ok(objects, p, tl)
    ELSE IF StartsWith(trimmed, <<"#">>) /\ ByteLen(trimmed) > 1
    THEN Try(parse_single_object(ls, p), LAMBDA o :
         ObjectsLoop(ls, o.pos, Append(objects, o.val), tl \cup o.tl))
    ELSE ObjectsLoop(ls, p + 1, objects, tl))

parse_objects(ls, p) == ObjectsLoop(ls, p, <<>>, {})

(* ------------------------------- resets ------------------------------- *)

\* mutant: the character is never found
FindChar_none(s, c, i) == 0

\* str::find: the index of the first occurrence, 0 when there is none
RECURSIVE FindChar(_, _, _)
FindChar(s, c, i) ==
    IF i > Len(s) THEN 0 ELSE IF s[i] = c THEN i ELSE FindChar(s, c, i + 1)

\* mutant: a field that is no integer is taken as 0
ResetFields_defaults(parts, n) == <<[i \in 1..(n - 1) |-> IntOrZero(parts[i + 1])]>>

\* the integer fields parts[2..n] of a reset line, or <<>> when one is no i32
ResetFields(parts, n) ==
    IF \A i \in 2..n : parse_i32(parts[i]).ok
    THEN <<[i \in 1..(n - 1) |-> parse_i32(parts[i + 1]).val]>>
    ELSE <<>>

ResetOf(command, f) ==
    CASE command = <<"M">> ->
           [kind |-> "Mobile", if_flag |-> f[1], mob_vnum |-> f[2], limit |-> f[3],
            room_vnum |-> f[4], max_in_room |-> f[5]]
      [] command = <<"O">> ->
           [kind |-> "ObjectInRoom", if_flag |-> f[1], obj_vnum |-> f[2], limit |-> f[3],
            room_vnum |-> f[4]]
      [] command = <<"G">> ->
           [kind |-> "GiveObject", if_flag |-> f[1], obj_vnum |-> f[2], limit |-> f[3]]
      [] command = <<"E">> ->
           [kind |-> "EquipObject", if_flag |-> f[1], obj_vnum |-> f[2], limit |-> f[3],
            wear_location |-> f[4]]
      [] command = <<"P">> ->
           [kind |-> "PutInContainer", if_flag |-> f[1], obj_vnum |-> f[2],
            limit |-> f[3], container_vnum |-> f[4]]
      [] command = <<"D">> ->
           [kind |-> "Door", room_vnum |-> f[1], direction |-> f[2], state |-> f[3]]
      [] command = <<"R">> ->
           [kind |-> "RandomizeExits", room_vnum |-> f[1], num_exits |-> f[2]]

\* the number of tokens each recognised command requires
ResetArity(command) ==
    CASE command = <<"M">> -> 6
      [] command \in {<<"O">>, <<"E">>, <<"P">>} -> 5
      [] command \in {<<"G">>, <<"D">>} -> 4
      [] command = <<"R">> -> 3
      [] OTHER -> 0

\* mutant: a command letter outside the seven is refused
parse_single_reset_strict(line0) ==
    Bind(Trim(line0), LAMBDA line1 :
    Bind(FindChar(line1, "*", 1), LAMBDA idx :
    Bind(split_whitespace(IF idx > 0 THEN Trim(SubSeq(line1, 1, idx - 1)) ELSE line1),
         LAMBDA parts :
    IF parts = <<>> THEN Val(<<>>) ELSE
    Bind(ResetArity(parts[1]), LAMBDA n :
    IF n = 0 THEN Bad("InvalidResetCommand") ELSE
    IF Len(parts) < n THEN Bad("InvalidResetCommand") ELSE
    Bind(ResetFields(parts, n), LAMBDA f :
    IF f = <<>> THEN Bad("ParseInt") ELSE Val(<<ResetOf(parts[1], f[1])>>))))))

\* Result<Option<Reset>>: val is a sequence of zero or one Reset
parse_single_reset(line0) ==
    Bind(Trim(line0), LAMBDA line1 :
    Bind(FindChar(line1, "*", 1), LAMBDA idx :
    Bind(split_whitespace(IF idx > 0 THEN Trim(SubSeq(line1, 1, idx - 1)) ELSE line1),
         LAMBDA parts :
    IF parts = <<>> THEN Val(<<>>) ELSE
    Bind(ResetArity(parts[1]), LAMBDA n :
    IF n = 0 THEN Val(<<>>) ELSE
    IF Len(parts) < n THEN Bad("InvalidResetCommand") ELSE
    Bind(ResetFields(parts, n), LAMBDA f :
    IF f = <<>> THEN Bad("ParseInt") ELSE Val(<<ResetOf(parts[1], f[1])>>))))))

\* mutant: #SHOPS does not end the section
ResetsSectionEnd_noShops(trimmed) ==
    \/ StartsWith(trimmed, M_SPECIALS)
    \/ StartsWith(trimmed, M_END)
    \/ trimmed = <<"S">>

ResetsSectionEnd(trimmed) ==
    \/ StartsWith(trimmed, M_SHOPS)
    \/ StartsWith(trimmed, M_SPECIALS)
    \/ StartsWith(trimmed, M_END)
    \/ trimmed = <<"S">>

RECURSIVE ResetsLoop(_, _, _)
ResetsLoop(ls, p, resets) ==
    IF p > Len(ls) THEN Ok(resets, p, {}) ELSE
    Bind(Trim(ls[p]), LAMBDA trimmed :
    IF ResetsSectionEnd(trimmed) THEN Ok(resets, p, {})
    ELSE IF StartsWith(trimmed, <<"*">>) \/ trimmed = <<>>
    THEN ResetsLoop(ls, p + 1, resets)
    ELSE Bind(parse_single_reset(ls[p]), LAMBDA reset :
         IF ~reset.ok THEN Err(reset.err, p)
         ELSE ResetsLoop(ls, p + 1, resets \o reset.val)))

parse_resets(ls, p) == ResetsLoop(ls, p, <<>>)

(* ------------------------------ inputs -------------------------------- *)

\* the lines the input files are built from
M_HELPS == <<"#", "H", "E", "L", "P", "S">>

L_f == <<"f", "~">>

L_n == <<"n", "~">>

L_c == <<"c", "~">>

L_range == <<"1", " ", "2">>

L_v1 == <<"#", "1">>

L_a == <<"a", "~">>

L_b == <<"b", "~">>

L_attrs == <<"0", " ", "D", " ", "1">>

L_D0 == <<"D", "0">>

L_d == <<"d", "~">>

L_k == <<"k", "~">>

L_exit == <<"0", " ", "0", " ", "2">>

L_E == <<"E">>

L_S == <<"S">>

L_v2 == <<"#", "2">>

L_s == <<"s", "~">>

L_l == <<"l", "~">>

L_m == <<"m", "~">>

L_type == <<"w", " ", "0", " ", "A">>

L_values == <<"0", " ", "0", " ", "0">>

L_weight == <<"1", " ", "2", " ", "3", " ", "P">>

L_resetM == <<"M", " ", "0", " ", "1", " ", "1", " ", "1", " ", "1">>

L_comment == <<"*", " ", "c">>

L_resetX == <<"X", " ", "1">>

L_v3 == <<"#", "3">>

L_mobM == <<"M", " ", "1">>

L_help == <<"0", " ", "h", "~">>

L_x == <<"x">>

L_shopsX == <<"#", "S", "H", "O", "P", "S", " ", "x">>

L_zeroPad == <<" ", "#", "0", " ">>

L_v00 == <<"#", "0", "0">>

\* one well-formed section of each kind, as ROM area files write them
SecArea == <<M_AREA, L_f, L_n, L_c, L_range>>

SecRooms ==
    <<M_ROOMS, L_v1, L_a, L_b, L_attrs, L_D0, L_d, L_k, L_exit, L_E, L_k, L_d, L_S, M_ZERO>>

SecObjects ==
    <<M_OBJECTS, L_v2, L_k, L_s, L_l, L_m, L_type, L_values, L_weight, L_E, L_k, L_d, M_ZERO>>

SecResets == <<M_RESETS, L_resetM, L_comment, L_resetX, L_S>>

SecMobiles == <<M_MOBILES, L_v3, L_mobM, M_ZERO>>

SecHelps == <<M_HELPS, L_help, L_x>>

SecEnd == <<M_END>>

Sections == {SecArea, SecRooms, SecObjects, SecResets, SecMobiles, SecHelps, SecEnd}

MaxSections == 3

RECURSIVE Files(_)
Files(n) ==
    IF n = 0 THEN {<<>>}
    ELSE LET shorter == Files(n - 1) IN
         shorter \cup {f \o sec : f \in shorter, sec \in Sections}

RemoveAt(ls, i) == SubSeq(ls, 1, i - 1) \o SubSeq(ls, i + 1, Len(ls))

\* every file of at most MaxSections sections, whole or with one line lost
EditedFiles ==
    LET whole == Files(MaxSections) IN
    whole \cup {RemoveAt(f, i) : <<f, i>> \in UNION {{<<g, j>> : j \in 1..Len(g)} : g \in whole}}

\* a rooms or objects section closed by a line other than a plain #0
BoundaryLines == {M_SHOPS, M_SPECIALS, L_shopsX, L_zeroPad, L_v00}

ClosedBy(sec) ==
    {<<sec[1]>> \o body \o <<b>> \o rest :
        body \in {<<>>, SubSeq(sec, 2, Len(sec) - 1)},
        b \in BoundaryLines,
        rest \in {<<>>, SecEnd, SecResets}}

BoundaryFiles == ClosedBy(SecRooms) \cup ClosedBy(SecObjects)

\* vnum-range lines of a header
R_descending == <<"2", " ", "1">>

R_extra == <<"1", " ", "2", " ", "x">>

R_one == <<"1">>

R_word == <<"x", " ", "2">>

R_word2 == <<"1", " ", "y">>

R_signed == <<"-", "3", " ", "+", "4">>

R_wide == <<"2", "1", "4", "7", "4", "8", "3", "6", "4", "8", " ", "1">>

RangeLines == {L_range, R_descending, R_extra, R_one, <<>>, R_word, R_word2, R_signed, R_wide}

HeaderFields == {<<L_f>>, <<L_n>>, <<L_c>>, <<L_x, L_a>>, <<<<"~">>>>}

HeaderTexts ==
    {f \o n \o c \o <<r>> \o rest :
        f \in HeaderFields, n \in HeaderFields, c \in HeaderFields,
        r \in RangeLines, rest \in {<<>>, <<L_x>>}}

\* whole headers and headers cut short at any line
HeaderInputs == UNION {{SubSeq(t, 1, k) : k \in 0..Len(t)} : t \in HeaderTexts}

\* the physical lines the tilde fields are built from
T_text == <<"a">>

T_empty == <<>>

T_blank == <<" ">>

T_indented == <<" ", "b">>

T_mid == <<"~", "a">>

T_end == <<"a", "~">>

T_tilde == <<"~">>

T_double == <<"a", "~", "~">>

T_spaced == <<"b", " ", "~", " ">>

TildeLines ==
    {T_text, T_empty, T_blank, T_indented, T_mid, T_end, T_tilde, T_double, T_spaced}

MaxFieldLines == 3

RECURSIVE SeqsUpTo(_, _)
SeqsUpTo(S, n) ==
    IF n = 0 THEN {<<>>}
    ELSE LET shorter == SeqsUpTo(S, n - 1) IN
         shorter \cup {f \o <<x>> : f \in shorter, x \in S}

TildeInputs == SeqsUpTo(TildeLines, MaxFieldLines)

\* the lines of one room, and what may follow its attributes line
RoomHead == <<L_v1, L_a, L_b, L_attrs>>

ExitBlock == <<L_D0, L_d, L_k, L_exit>>

ExtraBlock == <<L_E, L_k, L_d>>

L_Spad == <<" ", "S", " ">>

BodyItems ==
    {ExitBlock, ExtraBlock, <<L_S>>, <<L_Spad>>, <<L_x>>, <<L_v2, L_a, L_b, L_attrs>>,
     <<M_RESETS>>, <<M_ZERO>>}

MaxBodyItems == 3

RECURSIVE Flatten(_)
Flatten(seqs) == IF seqs = <<>> THEN <<>> ELSE Head(seqs) \o Flatten(Tail(seqs))

RoomBodies == {Flatten(items) : items \in SeqsUpTo(BodyItems, MaxBodyItems)}

\* a run of n exit blocks, the i-th in direction dir[i]
DigitChars == <<"0", "1", "2", "3", "4", "5", "6", "7", "8", "9">>

ExitBlockTo(d) == <<<<"D", DigitChars[d + 1]>>, L_d, L_k, L_exit>>

MaxExits == 7

ExitRun(n, first, step) ==
    Flatten([i \in 1..n |-> ExitBlockTo((first + step * (i - 1)) % 6)])

ExitRuns ==
    {ExitRun(n, first, step) \o end :
        n \in 0..MaxExits, first \in {0, 5}, step \in {0, 1, 5}, end \in {<<L_S>>, <<>>}}

RoomInputs == {RoomHead \o body : body \in RoomBodies \cup ExitRuns}

\* tokens joined by one space
RECURSIVE Words(_)
Words(toks) ==
    IF toks = <<>> THEN <<>>
    ELSE IF Len(toks) = 1 THEN toks[1]
    ELSE toks[1] \o <<" ">> \o Words(Tail(toks))

Letters ==
    <<"A", "B", "C", "D", "E", "F", "G", "H", "I", "J", "K", "L", "M",
      "N", "O", "P", "Q", "R", "S", "T", "U", "V", "W", "X", "Y", "Z">>

\* integer tokens, and tokens that are no i32
N_minus == <<"-", "1">>

N_ten == <<"1", "0">>

N_eleven == <<"1", "1">>

N_wide == <<"2", "1", "4", "7", "4", "8", "3", "6", "4", "8">>

N_word == <<"x">>

N_float == <<"1", ".", "5">>

\* attribute lines: area_vnum, room_flags, sector_code
FlagTokens ==
    {<<Letters[i]>> : i \in 1..Len(Letters)}
        \cup {<<"0">>, <<"C", "D", "S">>, <<"D", "x", "D">>, <<"S", "a", "f", "e">>,
              <<"A", "B", "G", "H", "I", "J", "K", "L", "N", "O", "P">>}

SectorTokens ==
    {<<DigitChars[i]>> : i \in 1..10} \cup {N_ten, N_eleven, N_minus, N_word, N_wide}

AttrLines ==
    {Words(<<a, f, c>>) : a \in {<<"0">>, <<"7">>, N_minus, N_word}, f \in FlagTokens,
                          c \in SectorTokens}
        \cup {<<>>, <<"0">>, <<"0", " ", "D">>, <<" ", "0", " ", " ", "D", " ", "1", " ">>,
              <<"0", " ", "D", " ", "1", " ", "x">>, <<"0", " ", "D", " ", "1", "1", " ", "1">>}

\* lines handed to parse_direction
DirLines ==
    {<<"D", DigitChars[i]>> : i \in 1..10}
        \cup {<<c, "0">> : c \in {"d", "E", "N", "#"}}
        \cup {<<"D", c>> : c \in {"x", "-", "+", " ", "D", NonAscii}}
        \cup {<<>>, <<"D">>, <<"0">>, <<" ", "D", "3", " ">>, <<"D", " ", "0">>,
              <<"D", "0", "x">>, <<"D", "1", "2">>, <<"D", "0", NonAscii>>,
              <<"D", "5", " ", "x">>, <<"D", "-", "1">>, <<"D", "o", "o", "r">>}

\* exit blocks: direction line, description, keyword, data line
ExitDataLines ==
    {L_exit, <<"1", " ", "-", "1", " ", "3">>, <<"1", " ", "2", " ", "3", " ", "x">>,
     <<"0", " ", "0">>, <<>>, <<"0", " ", "x", " ", "2">>, <<"a", " ", "0", " ", "2">>,
     Words(<<<<"0">>, <<"0">>, N_wide>>)}

ExitTexts ==
    {<<dir>> \o description \o keyword \o <<data>> \o rest :
        dir \in {L_D0, <<"D", "5">>, <<"D", "9">>},
        description \in {<<L_d>>, <<L_x, L_d>>, <<T_tilde>>},
        keyword \in {<<T_tilde>>, <<L_k>>, <<<<" ", "~">>>>, <<<<"k", " ", "w", "~">>>>},
        data \in ExitDataLines,
        rest \in {<<>>, <<L_S>>}}

\* whole exit blocks and blocks cut short at any line
ExitInputs == UNION {{SubSeq(t, 1, k) : k \in 0..Len(t)} : t \in ExitTexts}

\* the lines of one object, and what may follow its weight line
ObjectHead == <<L_v2, L_k, L_s, L_l, L_m, L_type, L_values, L_weight>>

L_apply == <<"A">>

TailItems ==
    {ExtraBlock, <<L_E, L_a, L_b>>, <<L_E, L_k, L_v3, L_d>>, <<L_x>>, <<L_apply>>,
     <<L_v3>>, <<M_ZERO>>, <<L_zeroPad>>, <<M_RESETS>>, <<L_S>>}

ObjectInputs ==
    {ObjectHead \o Flatten(items) : items \in SeqsUpTo(TailItems, MaxBodyItems)}

\* values lines: up to five tokens and one more, the third quoted or not
Q1 == "'"

Q2 == "\""

Value2Tokens ==
    {<<"0">>, <<"7">>, N_minus, <<"w", "a", "t", "e", "r">>, <<Q1, "a", Q1>>, <<Q2, "b", Q2>>,
     <<Q1, "a">>, <<"a", Q1>>, <<Q1, Q1, "a", Q1, Q1>>, <<Q1, Q2, "a">>, <<Q1>>, <<Q1, Q1>>,
     <<Q1, "a", Q1, "b", Q1>>, <<Q1, "1", "2", Q1>>}

ValuesTexts ==
    {<<v0, v1, v2, v3, v4, <<"9">>>> :
        v0 \in {<<"0">>, <<"5">>, N_word}, v1 \in {<<"-", "2">>, N_wide},
        v2 \in Value2Tokens, v3 \in {<<"+", "3">>, N_float}, v4 \in {<<"4">>, <<"y">>}}

ValuesLines == UNION {{Words(SubSeq(t, 1, k)) : k \in 0..Len(t)} : t \in ValuesTexts}

\* weight lines: weight, cost, level, condition and one more token
WeightTexts ==
    {<<w, c, l, cond, N_word>> :
        w \in {<<"1">>, N_word, N_wide}, c \in {<<"2">>, <<"-", "2">>, <<"y">>},
        l \in {<<"3">>, N_float}, cond \in {<<"P">>, <<"1", "0", "0">>}}

WeightLines == UNION {{Words(SubSeq(t, 1, k)) : k \in 0..Len(t)} : t \in WeightTexts}

\* reset lines: a command letter and up to six fields, one of them no
\* integer or none, and the same behind or before a `*` comment
ResetCommands == {<<"M">>, <<"O">>, <<"G">>, <<"E">>, <<"P">>, <<"D">>, <<"R">>}

ResetInts == <<<<"0">>, <<"1", "0">>, <<"2">>, <<"3", "0">>, <<"4">>, <<"7">>>>

ResetFieldRows ==
    {ResetInts}
        \cup {[ResetInts EXCEPT ![j] = bad] : j \in 1..5, bad \in {N_word, N_wide}}

ResetLines ==
    {Words(<<c>> \o SubSeq(row, 1, k)) :
        c \in ResetCommands \cup {<<"X">>, <<"m">>}, row \in ResetFieldRows, k \in 0..6}
        \cup {<<>>, <<" ">>, L_comment, L_resetX,
              Words(<<<<"M">>, <<"0">>, <<"1">>, <<"1">>, <<"1">>, <<"*">>, <<"1">>>>),
              Words(<<<<"R">>, <<"5">>, <<"6">>, <<"*", "7">>>>),
              <<" ", "G", " ", " ", "0", " ", "1", " ", "2", " ">>}

\* the lines of a reset section
L_resetR == <<"R", " ", "5", " ", "6">>

L_resetRc == <<"R", " ", "7", " ", "8", "*", "c">>

L_resetCut == <<"M", " ", "0", " ", "1", " ", "1", " ", "1", " ", "*", " ", "1">>

L_scenario4 == <<"M", " ", "0", " ", "3", "0", "5", "0", " ", "1", " ", "3", "0", "0", "1", " ", "1", " ", "*", "c", "o", "m", "m", "e", "n", "t">>

L_Sx == <<"S", " ", "x">>

ResetSectionLines ==
    {L_resetM, L_resetR, L_resetRc, L_resetCut, L_scenario4, L_comment, <<>>, <<" ">>,
     L_resetX, L_Sx, L_mobM, L_S, L_Spad, M_SHOPS, L_shopsX, M_SPECIALS, M_END, M_ROOMS}

MaxResetLines == 3

ResetInputs == SeqsUpTo(ResetSectionLines, MaxResetLines)

\* a second section of each kind, unlike the first, and the empty ones
SecArea2 == <<M_AREA, L_f, L_a, L_c, L_range>>

SecRooms2 == <<M_ROOMS, L_v3, L_a, L_b, L_attrs, L_S, M_ZERO>>

SecObjects2 == <<M_OBJECTS, L_v3, L_k, L_s, L_l, L_m, L_type, L_values, L_weight, M_ZERO>>

SecResets2 == <<M_RESETS, L_resetR, L_S>>

SecRoomsNone == <<M_ROOMS, M_ZERO>>

SecObjectsNone == <<M_OBJECTS, M_ZERO>>

SecResetsNone == <<M_RESETS, L_S>>

\* the sections that may stand for each other
SectionKinds ==
    {{SecArea, SecArea2}, {SecRooms, SecRooms2, SecRoomsNone},
     {SecObjects, SecObjects2, SecObjectsNone}, {SecResets, SecResets2, SecResetsNone}}

\* files in which a section kind occurs twice, with or without another
\* section between the two, closed by #$ or not, or with #$ between them
RepeatFiles ==
    UNION {{a \o between \o b \o close :
               <<a, b>> \in {ab \in kind \X kind : ab[1] # ab[2]},
               between \in {<<>>, SecHelps, SecResets2, SecEnd},
               close \in {<<>>, SecEnd}} : kind \in SectionKinds}

\* a room whose exit line is `D` and a two-byte character
L_Dwide == <<"D", NonAscii>>

WideFiles ==
    {before \o <<M_ROOMS, L_v1, L_a, L_b, L_attrs, L_Dwide, L_d, L_k, L_exit, L_S, M_ZERO>>
            \o SecEnd : before \in {<<>>, SecArea}}

\* socials files: the lines in front of the records, one or two records and
\* the end of the file
M_SOCIALS == <<"#", "S", "O", "C", "I", "A", "L", "S">>

L_kiss == <<"k", "i", "s", "s", " ", "0", " ", "0">>

L_Kiss == <<"K", "i", "s", "s">>

L_LAUGH == <<" ", "L", "A", "U", "G", "H", " ", " ", "x", " ">>

SocialHeads == {L_kiss, L_Kiss, L_LAUGH}

L_dollar == <<"$">>

L_hash == <<"#">>

L_m1 == <<"Y", "o", "u", " ", "k", "i", "s", "s", " ", "$", "M", ".">>

L_m2 == <<" ", "$", "n", " ", "k", "i", "s", "s", "e", "s", " ", "y", "o", "u", ".", " ">>

L_m3 == <<"#", "0", " ", "n", "e", "v", "e", "r">>

\* the message lines of a record and what ends it
SocialBodies ==
    {<<L_m1, L_dollar, L_m3, L_m2, <<>>, L_m1, L_m2, L_m3, <<>>>>,
     <<L_m1, L_dollar, L_m3, L_m2, <<>>, L_m1, L_m2, L_m3, L_hash>>,
     <<L_m1, <<" ", "$", " ">>, L_m2, L_hash, <<>>>>,
     <<L_m3, <<" ">>, <<" ", "#", " ">>>>,
     <<L_m2, L_m1>>,
     <<>>}

SocialRecords == {<<h>> \o b : h \in SocialHeads, b \in SocialBodies}

MaxSocials == 2

SocialFiles ==
    {front \o Flatten(recs) \o close :
        front \in {<<M_SOCIALS>>, <<L_x, M_SOCIALS \o <<" ", "x">>, <<>>>>, <<>>},
        recs \in SeqsUpTo(SocialRecords, MaxSocials),
        close \in {<<M_ZERO>>, <<M_END>>, <<>>}}

\* area files handed to the import: the area n of the vnums 1..2, whose room
\* #1 has exits to 2, to 3 and to 9, the area a of the vnums 3..4, whose room
\* #3 has an exit to 1, and a file that does not parse
L_range34 == <<"3", " ", "4">>

L_exitTo1 == <<"0", " ", "0", " ", "1">>

L_exitTo3 == <<"0", " ", "0", " ", "3">>

L_exitTo9 == <<"0", " ", "0", " ", "9">>

ExitTo(code, data) == <<<<"D", code>>, L_d, L_k, data>>

Content_n ==
    <<M_AREA, L_f, L_n, L_c, L_range, M_ROOMS>> \o RoomHead
        \o ExitTo("0", L_exit) \o ExitTo("1", L_exitTo3) \o ExitTo("2", L_exitTo9)
        \o <<L_S, M_ZERO, M_END>>

Content_a ==
    <<M_AREA, L_f, L_a, L_c, L_range34, M_ROOMS, L_v3, L_a, L_b, L_attrs>>
        \o ExitTo("3", L_exitTo1) \o <<L_S, M_ZERO, M_END>>

Content_bad == <<M_AREA, L_f>>

ImportContents == {Content_n, Content_a, Content_bad}

MaxRequests == 2

\* lines handed to parse_vnum
VnumLines ==
    {<<"#", "3", "0", "0", "1">>,
     <<" ", " ", "#", "3", "0", "5", "0", " ", " ">>,
     <<"3", "0", "0", "1">>,
     <<"#", "a", "b", "c">>,
     <<"#">>,
     <<"#", " ", "5">>,
     <<"#", "+", "5">>,
     <<"#", "-", "3">>,
     <<"#", "0">>,
     <<"#", "-", "0">>,
     <<"#", "0", "0", "7">>,
     <<"#", "2", "1", "4", "7", "4", "8", "3", "6", "4", "7">>,
     <<"#", "2", "1", "4", "7", "4", "8", "3", "6", "4", "8">>,
     <<"#", "-", "2", "1", "4", "7", "4", "8", "3", "6", "4", "8">>,
     <<"#", "-", "2", "1", "4", "7", "4", "8", "3", "6", "4", "9">>,
     <<"#", "#", "1">>,
     <<"#", "1", ".", "5">>,
     <<"#", "1", " ", "2">>,
     <<"x", "#", "1">>,
     <<"#", "1", "x">>,
     <<"#", "+">>,
     <<"#", "-">>,
     <<"#", "+", "-", "1">>,
     <<" ", "#", "1", "2">>,
     <<"#", "1", "2", " ">>,
     <<"\t", "#", "4">>,
     <<>>, <<" ">>, <<"#", NonAscii>>, <<"#", "1", NonAscii>>, <<NonAscii, "#", "1">>}

(* ----------------------------- dispatcher ----------------------------- *)

AreaHeader_default ==
    [filename |-> <<>>, name |-> <<>>, credits |-> <<>>, min_vnum |-> 0, max_vnum |-> 0]

AreaFile_default ==
    [header |-> AreaHeader_default, rooms |-> <<>>, objects |-> <<>>, resets |-> <<>>]

NoReturn == [tag |-> "None"]

NoCall == [kind |-> "none", from |-> 0, to |-> 0, ok |-> TRUE, err |-> ""]

SectionMarkers == {M_AREA, M_ROOMS, M_OBJECTS, M_RESETS}

\* mutant: an unknown `#` line ends the scan
Arm_unknownBreaks(trimmed) ==
    IF trimmed \in SectionMarkers THEN "delegate"
    ELSE IF StartsWith(trimmed, <<"#">>) THEN "break"
    ELSE "skip"

\* mutant: `#$` is skipped like any other line
Arm_noBreak(trimmed) == IF trimmed \in SectionMarkers THEN "delegate" ELSE "skip"

\* the arm `match trimmed` takes
Arm(trimmed) ==
    IF trimmed \in SectionMarkers THEN "delegate"
    ELSE IF trimmed = M_END THEN "break"
    ELSE "skip"

FieldOf(marker) ==
    CASE marker = M_AREA -> "header"
      [] marker = M_ROOMS -> "rooms"
      [] marker = M_OBJECTS -> "objects"
      [] marker = M_RESETS -> "resets"

\* mutant: parse_resets hands the cursor back on the #RESETS line
SectionCall_rewinds(marker, ls, p) ==
    CASE marker = M_AREA -> parse_area_header(ls, p + 1)
      [] marker = M_ROOMS -> parse_rooms(ls, p + 1)
      [] marker = M_OBJECTS -> parse_objects(ls, p + 1)
      [] marker = M_RESETS -> [parse_resets(ls, p + 1) EXCEPT !.pos = p]

\* the sub-parser a match arm delegates to, called with the marker consumed
SectionCall(marker, ls, p) ==
    CASE marker = M_AREA -> parse_area_header(ls, p + 1)
      [] marker = M_ROOMS -> parse_rooms(ls, p + 1)
      [] marker = M_OBJECTS -> parse_objects(ls, p + 1)
      [] marker = M_RESETS -> parse_resets(ls, p + 1)

\* mutant: the error of the sub-parser is dropped and the loop goes on
AfterCall_swallow(field, r, a) ==
    IF r.ok THEN [area |-> [a EXCEPT ![field] = r.val], status |-> "running", ret |-> NoReturn]
    ELSE [area |-> a, status |-> "running", ret |-> NoReturn]

\* mutant: the rooms, objects and resets of a section are added to those the
\* area already holds
AfterCall_appends(field, r, a) ==
    IF r.ok
    THEN [area |-> [a EXCEPT ![field] = IF field = "header" THEN r.val ELSE @ \o r.val],
          status |-> "running", ret |-> NoReturn]
    ELSE IF r.err = "panic" THEN [area |-> a, status |-> "done", ret |-> [tag |-> "Panic"]]
    ELSE [area |-> a, status |-> "done", ret |-> [tag |-> "Err", error |-> r.err]]

\* `area.field = parse(&mut lines)?`: store the value, or return the error
AfterCall(field, r, a) ==
    IF r.ok THEN [area |-> [a EXCEPT ![field] = r.val], status |-> "running", ret |-> NoReturn]
    ELSE IF r.err = "panic" THEN [area |-> a, status |-> "done", ret |-> [tag |-> "Panic"]]
    ELSE [area |-> a, status |-> "done", ret |-> [tag |-> "Err", error |-> r.err]]

\* the loop of parse_area_file has peeked a line
Peeking ==
    /\ entry = "parse_area_file"
    /\ status = "running"
    /\ pos <= Len(lines)

Peeked(marker) ==
    /\ Peeking
    /\ Arm(Trim(lines[pos])) = "delegate"
    /\ Trim(lines[pos]) = marker

\* lines.next() on the marker, then `area.field = parse(&mut lines)?`
Delegate(marker) ==
    /\ \E r \in {SectionCall(marker, lines, pos)} :
       \E n \in {AfterCall(FieldOf(marker), r, area)} :
          /\ pos' = r.pos
          /\ area' = n.area
          /\ status' = n.status
          /\ ret' = n.ret
          /\ last' = [kind |-> FieldOf(marker), from |-> pos + 1, to |-> r.pos,
                      ok |-> r.ok, err |-> r.err]
          /\ tildes' = tildes \cup r.tl
    /\ UNCHANGED <<entry, lines, db, req>>

DispatchArea ==
    /\ Peeked(M_AREA)
    /\ Delegate(M_AREA)

DispatchRooms ==
    /\ Peeked(M_ROOMS)
    /\ Delegate(M_ROOMS)

DispatchObjects ==
    /\ Peeked(M_OBJECTS)
    /\ Delegate(M_OBJECTS)

DispatchResets ==
    /\ Peeked(M_RESETS)
    /\ Delegate(M_RESETS)

\* "#$" => break, then Ok(area)
DispatchEnd ==
    /\ Peeking
    /\ Arm(Trim(lines[pos])) = "break"
    /\ status' = "done"
    /\ ret' = [tag |-> "Ok", area |-> area]
    /\ last' = NoCall
    /\ UNCHANGED <<entry, lines, pos, area, tildes, db, req>>

\* _ => lines.next()
DispatchSkip ==
    /\ Peeking
    /\ Arm(Trim(lines[pos])) = "skip"
    /\ pos' = pos + 1
    /\ last' = NoCall
    /\ UNCHANGED <<entry, lines, area, status, ret, tildes, db, req>>

\* lines.peek() is None: the loop ends, Ok(area)
DispatchEof ==
    /\ entry = "parse_area_file"
    /\ status = "running"
    /\ pos > Len(lines)
    /\ status' = "done"
    /\ ret' = [tag |-> "Ok", area |-> area]
    /\ last' = NoCall
    /\ UNCHANGED <<entry, lines, pos, area, tildes, db, req>>

\* parse_area_file as a function of the content: the loop run to its return
RECURSIVE DispatchLoop(_, _, _, _)
DispatchLoop(ls, p, a, tl) ==
    IF p > Len(ls) THEN [ret |-> [tag |-> "Ok", area |-> a], pos |-> p, tl |-> tl] ELSE
    Bind(Trim(ls[p]), LAMBDA trimmed :
    Bind(Arm(trimmed), LAMBDA arm :
    IF arm = "break" THEN [ret |-> [tag |-> "Ok", area |-> a], pos |-> p, tl |-> tl]
    ELSE IF arm = "delegate"
    THEN Bind(SectionCall(trimmed, ls, p), LAMBDA r :
         Bind(AfterCall(FieldOf(trimmed), r, a), LAMBDA n :
         IF n.status = "done" THEN [ret |-> n.ret, pos |-> r.pos, tl |-> tl]
         ELSE DispatchLoop(ls, r.pos, n.area, tl \cup r.tl)))
    ELSE DispatchLoop(ls, p + 1, a, tl)))

parse_area_file(ls) == DispatchLoop(ls, 1, AreaFile_default, {})

(* ------------------------------ socials ------------------------------- *)

UpperCase == <<"A", "B", "C", "D", "E", "F", "G", "H", "I", "J", "K", "L", "M", "N", "O", "P", "Q", "R", "S", "T", "U", "V", "W", "X", "Y", "Z">>

LowerCase == <<"a", "b", "c", "d", "e", "f", "g", "h", "i", "j", "k", "l", "m", "n", "o", "p", "q", "r", "s", "t", "u", "v", "w", "x", "y", "z">>

\* str::to_lowercase, on the letters A..Z
to_lowercase(text) ==
    [k \in DOMAIN text |->
        IF \E u \in DOMAIN UpperCase : UpperCase[u] = text[k]
        THEN LowerCase[CHOOSE u \in DOMAIN UpperCase : UpperCase[u] = text[k]]
        ELSE text[k]]

\* HashMap::insert: the value of an equal key is replaced
Insert(map, key, value) ==
    [k \in DOMAIN map \cup {key} |-> IF k = key THEN value ELSE map[k]]

\* the index of the first line that starts with #SOCIALS, Len + 1 without one
RECURSIVE SkipToSocials(_, _)
SkipToSocials(ls, i) ==
    IF i <= Len(ls) /\ ~StartsWith(ls[i], <<"#", "S", "O", "C", "I", "A", "L", "S">>)
    THEN SkipToSocials(ls, i + 1)
    ELSE i

\* mutant: a `$` line is stored as it stands
SocialMessage_dollarKept(line) == IF Trim(line) = <<>> THEN <<>> ELSE line

\* the message a line gives: empty for `$` and for a blank line
SocialMessage(line) == IF Trim(line) = <<"$">> \/ Trim(line) = <<>> THEN <<>> ELSE line

\* for _ in 0..8: the messages read so far and the index of the next line
RECURSIVE ReadMessages(_, _, _, _)
ReadMessages(ls, i, n, messages) ==
    IF n = 8 \/ i > Len(ls) THEN <<messages, i>>
    ELSE IF Trim(ls[i]) = <<"#">> THEN <<messages, i + 1>>
    ELSE ReadMessages(ls, i + 1, n + 1, Append(messages, SocialMessage(ls[i])))

\* while messages.len() < 8 { messages.push(String::new()) }
RECURSIVE PadMessages(_)
PadMessages(messages) ==
    IF Len(messages) < 8 THEN PadMessages(Append(messages, <<>>)) ELSE messages

SocialOf(command_name, messages) ==
    [name |-> command_name,
     messages |-> [char_no_arg |-> messages[1], others_no_arg |-> messages[2],
                   char_found |-> messages[3], others_found |-> messages[4],
                   vict_found |-> messages[5], char_not_found |-> messages[6],
                   char_auto |-> messages[7], others_auto |-> messages[8]]]

\* while i < lines.len()
RECURSIVE SocialsLoop(_, _, _)
SocialsLoop(ls, i, socials) ==
    IF i > Len(ls) THEN socials ELSE
    Bind(Trim(ls[i]), LAMBDA line :
    IF StartsWith(line, <<"#", "0">>) \/ StartsWith(line, <<"#", "$">>) THEN socials
    ELSE IF line = <<>> \/ StartsWith(line, <<"#">>) THEN SocialsLoop(ls, i + 1, socials)
    ELSE Bind(split_whitespace(line), LAMBDA parts :
         IF parts = <<>> THEN SocialsLoop(ls, i + 1, socials) ELSE
         Bind(to_lowercase(parts[1]), LAMBDA command_name :
         Bind(ReadMessages(ls, i + 1, 0, <<>>), LAMBDA read :
         SocialsLoop(ls, read[2],
                     Insert(socials, command_name,
                            SocialOf(command_name, PadMessages(read[1]))))))))

parse_socials(ls) == SocialsLoop(ls, SkipToSocials(ls, 1) + 1, <<>>)

(* ------------------------------ import -------------------------------- *)

\* Direction::as_str
Direction_as_str(d) ==
    CASE d = "North" -> "north" [] d = "East" -> "east" [] d = "South" -> "south"
      [] d = "West" -> "west" [] d = "Up" -> "up" [] d = "Down" -> "down"

\* AreaRepository::get_by_name: the first row of that name, if any
get_by_name(areas, name) ==
    LET found == {k \in 1..Len(areas) : areas[k].name = name} IN
    IF found = {} THEN <<>> ELSE <<areas[CHOOSE k \in found : \A l \in found : k <= l]>>

\* AreaRepository::exists
exists(areas, name) == \E k \in 1..Len(areas) : areas[k].name = name

\* the rows of a table that satisfy Keep, in their order
RECURSIVE Rows(_, _)
Rows(table, keep) ==
    IF table = <<>> THEN <<>>
    ELSE (IF Head(table) \in keep THEN <<Head(table)>> ELSE <<>>) \o Rows(Tail(table), keep)

\* RoomRepository::create: INSERT .. ON CONFLICT (channel_id) DO UPDATE
UpsertRoom(rooms, room) == {x \in rooms : x.channel_id # room.channel_id} \cup {room}

\* mutant: only a target below the range is outside
OutsideArea_below(to_room, header) == to_room < header.min_vnum

\* the test that skips an exit of the area
OutsideArea(to_room, header) == to_room < header.min_vnum \/ to_room > header.max_vnum

\* the position of the two nested loops over rooms and their exits
RECURSIVE ExitCursor(_, _, _)
ExitCursor(rooms, i, j) ==
    IF i > Len(rooms) THEN <<i, 1>>
    ELSE IF j > Len(rooms[i].exits) THEN ExitCursor(rooms, i + 1, 1)
    ELSE <<i, j>>

\* a request as import_area_from_content is entered
Request(content, force) ==
    [content |-> content, force |-> force, pc |-> "parse", file |-> AreaFile_default,
     i |-> 1, j |-> 1, rooms_created |-> 0, exits_created |-> 0, found |-> <<>>,
     outcome |-> "None"]

At(r, pc) == r \in DOMAIN req /\ req[r].pc = pc

\* request r goes on with the fields of next
Step(r, next) ==
    /\ req' = [req EXCEPT ![r] = next @@ req[r]]
    /\ UNCHANGED <<entry, lines, pos, area, status, ret, last, tildes>>

\* let area_file = match parse_area_file(content)
ImportParse ==
    \E r \in DOMAIN req :
    /\ At(r, "parse")
    /\ \E p \in {parse_area_file(req[r].content).ret} :
          IF p.tag = "Ok"
          THEN Step(r, [pc |-> "exists", file |-> p.area])
          ELSE Step(r, [pc |-> "done", outcome |-> IF p.tag = "Err" THEN "ParseFailed" ELSE "Panic"])
    /\ UNCHANGED db

\* if area_repo.exists(name) { if !force { return } else { delete } }
ImportExists ==
    \E r \in DOMAIN req :
    /\ At(r, "exists")
    /\ IF exists(db.areas, req[r].file.header.name)
       THEN IF ~req[r].force
            THEN Step(r, [pc |-> "done", outcome |-> "AlreadyImported"])
            ELSE Step(r, [pc |-> "delete_get"])
       ELSE Step(r, [pc |-> IF req[r].file.rooms = <<>> THEN "area" ELSE "rooms"])
    /\ UNCHANGED db

\* the loops that follow the deletion
AfterDelete(r) == [pc |-> IF req[r].file.rooms = <<>> THEN "area" ELSE "rooms"]

\* delete_by_name: if let Some(area) = self.get_by_name(name)
DeleteGet ==
    \E r \in DOMAIN req :
    /\ At(r, "delete_get")
    /\ \E found \in {get_by_name(db.areas, req[r].file.header.name)} :
          IF found = <<>> THEN Step(r, AfterDelete(r))
          ELSE Step(r, [pc |-> "delete_rooms", found |-> found])
    /\ UNCHANGED db

\* delete_by_name: DELETE FROM rooms of the vnum range; their exits go with them
DeleteRooms ==
    \E r \in DOMAIN req :
    /\ At(r, "delete_rooms")
    /\ \E gone \in {{x \in db.rooms : ~OutsideArea(x.vnum, req[r].found[1])}} :
          db' = [db EXCEPT !.rooms = @ \ gone,
                           !.exits = Rows(@, {e \in Range(@) :
                                                 \A x \in gone : e.from_room_id # x.channel_id})]
    /\ Step(r, [pc |-> "delete_area"])

\* delete_by_name: DELETE FROM areas WHERE name = $1
DeleteArea ==
    \E r \in DOMAIN req :
    /\ At(r, "delete_area")
    /\ db' = [db EXCEPT !.areas = Rows(@, {a \in Range(@) : a.name # req[r].file.header.name})]
    /\ Step(r, AfterDelete(r))

\* first pass: room_repo.create(&room) for the next room of the file
CreateRoom ==
    \E r \in DOMAIN req :
    /\ At(r, "rooms")
    /\ \E room \in {req[r].file.rooms[req[r].i]} :
          db' = [db EXCEPT !.rooms = UpsertRoom(@, [channel_id |-> <<"vnum_", room.vnum>>,
                                                    vnum |-> room.vnum,
                                                    channel_name |-> room.name])]
    /\ IF req[r].i < Len(req[r].file.rooms)
       THEN Step(r, [i |-> req[r].i + 1, rooms_created |-> req[r].rooms_created + 1])
       ELSE \E c \in {ExitCursor(req[r].file.rooms, 1, 1)} :
              Step(r, [pc |-> IF c[1] > Len(req[r].file.rooms) THEN "area" ELSE "exits",
                       i |-> c[1], j |-> c[2],
                       rooms_created |-> req[r].rooms_created + 1])

\* the exit the second pass of request r is at
ExitAt(r) == req[r].file.rooms[req[r].i].exits[req[r].j]

ExitRow(r) ==
    [from_room_id |-> <<"vnum_", req[r].file.rooms[req[r].i].vnum>>,
     direction |-> Direction_as_str(ExitAt(r).direction),
     to_room_id |-> <<"vnum_", ExitAt(r).to_room>>]

\* second pass: the next exit is skipped or exit_repo.create(&exit) inserts it
CreateExit ==
    \E r \in DOMAIN req :
    /\ At(r, "exits")
    /\ \E skip \in {OutsideArea(ExitAt(r).to_room, req[r].file.header)} :
       \E c \in {ExitCursor(req[r].file.rooms, req[r].i, req[r].j + 1)} :
          /\ db' = IF skip THEN db ELSE [db EXCEPT !.exits = Append(@, ExitRow(r))]
          /\ Step(r, [pc |-> IF c[1] > Len(req[r].file.rooms) THEN "area" ELSE "exits",
                      i |-> c[1], j |-> c[2],
                      exits_created |-> req[r].exits_created + (IF skip THEN 0 ELSE 1)])

\* area_repo.create(&area): INSERT INTO areas
CreateArea ==
    \E r \in DOMAIN req :
    /\ At(r, "area")
    /\ db' = [db EXCEPT !.areas =
                 Append(@, [name |-> req[r].file.header.name,
                            filename |-> req[r].file.header.filename,
                            min_vnum |-> req[r].file.header.min_vnum,
                            max_vnum |-> req[r].file.header.max_vnum,
                            rooms_count |-> req[r].rooms_created,
                            exits_count |-> req[r].exits_created])]
    /\ Step(r, [pc |-> "done", outcome |-> "Imported"])

(* --------------------------- specifications --------------------------- *)

\* the tables of the database before anything is imported
Db_empty == [areas |-> <<>>, rooms |-> {}, exits |-> <<>>]

Start(fn, inputs) ==
    /\ entry = fn
    /\ lines \in inputs
    /\ pos = 1
    /\ area = AreaFile_default
    /\ status = "running"
    /\ ret = NoReturn
    /\ last = NoCall
    /\ tildes = {}
    /\ db = Db_empty
    /\ req = <<>>

Init == Start("parse_area_file", EditedFiles \cup BoundaryFiles \cup RepeatFiles \cup WideFiles)

Next ==
    \/ DispatchArea
    \/ DispatchRooms
    \/ DispatchObjects
    \/ DispatchResets
    \/ DispatchEnd
    \/ DispatchSkip
    \/ DispatchEof

Spec == Init /\ [][Next]_vars

\* the call runs on: the loop of parse_area_file is not suspended anywhere
SpecFair == Spec /\ WF_vars(Next)

\* read_until_tilde called on its own
CallReadUntilTilde ==
    /\ entry = "read_until_tilde"
    /\ status = "running"
    /\ \E r \in {read_until_tilde(lines, pos)} :
          /\ pos' = r.pos
          /\ ret' = IF r.ok THEN [tag |-> "Ok", value |-> r.val]
                    ELSE [tag |-> "Err", error |-> r.err]
          /\ tildes' = tildes \cup r.tl
    /\ status' = "done"
    /\ UNCHANGED <<entry, lines, area, last, db, req>>

\* a tilde field read on its own, or as the first field after #AREA
InitTilde ==
    \/ Start("read_until_tilde", TildeInputs)
    \/ Start("parse_area_file", {<<M_AREA>> \o f : f \in TildeInputs})

NextTilde ==
    \/ CallReadUntilTilde
    \/ DispatchArea

SpecTilde == InitTilde /\ [][NextTilde]_vars

\* parse_area_header called on its own
CallParseAreaHeader ==
    /\ entry = "parse_area_header"
    /\ status = "running"
    /\ \E r \in {parse_area_header(lines, pos)} :
          /\ pos' = r.pos
          /\ ret' = IF r.ok THEN [tag |-> "Ok", header |-> r.val]
                    ELSE [tag |-> "Err", error |-> r.err]
          /\ tildes' = tildes \cup r.tl
    /\ status' = "done"
    /\ UNCHANGED <<entry, lines, area, last, db, req>>

InitHeader == Start("parse_area_header", HeaderInputs)

NextHeader == CallParseAreaHeader

SpecHeader == InitHeader /\ [][NextHeader]_vars

\* parse_single_room called on its own
CallParseSingleRoom ==
    /\ entry = "parse_single_room"
    /\ status = "running"
    /\ \E r \in {parse_single_room(lines, pos)} :
          /\ pos' = r.pos
          /\ ret' = IF r.ok THEN [tag |-> "Ok", room |-> r.val]
                    ELSE [tag |-> "Err", error |-> r.err]
          /\ tildes' = tildes \cup r.tl
    /\ status' = "done"
    /\ UNCHANGED <<entry, lines, area, last, db, req>>

\* parse_exit called on its own, the cursor on the direction line
CallParseExit ==
    /\ entry = "parse_exit"
    /\ status = "running"
    /\ \E r \in {parse_exit(lines, pos)} :
          /\ pos' = r.pos
          /\ ret' = IF r.ok THEN [tag |-> "Ok", exit |-> r.val]
                    ELSE [tag |-> "Err", error |-> r.err]
          /\ tildes' = tildes \cup r.tl
    /\ status' = "done"
    /\ UNCHANGED <<entry, lines, area, last, db, req>>

\* parse_single_object called on its own, the cursor on the `#<vnum>` line
CallParseSingleObject ==
    /\ entry = "parse_single_object"
    /\ status = "running"
    /\ \E r \in {parse_single_object(lines, pos)} :
          /\ pos' = r.pos
          /\ ret' = IF r.ok THEN [tag |-> "Ok", object |-> r.val]
                    ELSE [tag |-> "Err", error |-> r.err]
          /\ tildes' = tildes \cup r.tl
    /\ status' = "done"
    /\ UNCHANGED <<entry, lines, area, last, db, req>>

\* parse_resets called on its own, the cursor behind the #RESETS line
CallParseResets ==
    /\ entry = "parse_resets"
    /\ status = "running"
    /\ \E r \in {parse_resets(lines, pos)} :
          /\ pos' = r.pos
          /\ ret' = IF r.ok THEN [tag |-> "Ok", resets |-> r.val]
                    ELSE [tag |-> "Err", error |-> r.err]
    /\ status' = "done"
    /\ UNCHANGED <<entry, lines, area, last, tildes, db, req>>

InitRecord ==
    \/ Start("parse_single_room", RoomInputs)
    \/ Start("parse_exit", ExitInputs)
    \/ Start("parse_single_object", ObjectInputs)
    \/ Start("parse_resets", ResetInputs)

NextRecord ==
    \/ CallParseSingleRoom
    \/ CallParseExit
    \/ CallParseSingleObject
    \/ CallParseResets

SpecRecord == InitRecord /\ [][NextRecord]_vars

\* the ret of a reader that takes one line
Returned(r) == IF r.ok THEN [tag |-> "Ok", value |-> r.val]
               ELSE IF r.err = "panic" THEN [tag |-> "Panic"]
               ELSE [tag |-> "Err", error |-> r.err]

\* a one-line reader called on its own; the line is lines[1]
CallLine(fn, r) ==
    /\ entry = fn
    /\ status = "running"
    /\ ret' = Returned(r)
    /\ pos' = 2
    /\ status' = "done"
    /\ UNCHANGED <<entry, lines, area, last, tildes, db, req>>

CallParseRoomAttributes ==
    \E r \in {parse_room_attributes(lines[1])} : CallLine("parse_room_attributes", r)

CallParseDirection ==
    \E r \in {parse_direction(lines[1])} : CallLine("parse_direction", r)

CallParseObjectValuesLine ==
    \E r \in {parse_object_values_line(lines[1])} : CallLine("parse_object_values_line", r)

CallParseObjectWeightLine ==
    \E r \in {parse_object_weight_line(lines[1])} : CallLine("parse_object_weight_line", r)

CallParseSingleReset ==
    \E r \in {parse_single_reset(lines[1])} : CallLine("parse_single_reset", r)

OneLine(fn, inputs) == Start(fn, {<<line>> : line \in inputs})

CallParseVnum ==
    \E r \in {parse_vnum(lines[1])} : CallLine("parse_vnum", r)

InitLine ==
    \/ OneLine("parse_room_attributes", AttrLines)
    \/ OneLine("parse_direction", DirLines)
    \/ OneLine("parse_object_values_line", ValuesLines)
    \/ OneLine("parse_object_weight_line", WeightLines)
    \/ OneLine("parse_single_reset", ResetLines)
    \/ OneLine("parse_vnum", VnumLines)

NextLineCall ==
    \/ CallParseRoomAttributes
    \/ CallParseDirection
    \/ CallParseObjectValuesLine
    \/ CallParseObjectWeightLine
    \/ CallParseSingleReset
    \/ CallParseVnum

SpecLine == InitLine /\ [][NextLineCall]_vars

CallParseSocials ==
    /\ entry = "parse_socials"
    /\ status = "running"
    /\ ret' = [tag |-> "Ok", socials |-> parse_socials(lines)]
    /\ status' = "done"
    /\ UNCHANGED <<entry, lines, pos, area, last, tildes, db, req>>

InitSocials == Start("parse_socials", SocialFiles)

NextSocials == CallParseSocials

SpecSocials == InitSocials /\ [][NextSocials]_vars

\* import requests served by one process, each advancing from await to await
InitImport ==
    /\ entry = "import_area_from_content"
    /\ lines = <<>>
    /\ pos = 1
    /\ area = AreaFile_default
    /\ status = "running"
    /\ ret = NoReturn
    /\ last = NoCall
    /\ tildes = {}
    /\ db = Db_empty
    /\ req \in [1..MaxRequests -> {Request(c, f) : c \in ImportContents, f \in BOOLEAN}]

NextImport ==
    \/ ImportParse
    \/ ImportExists
    \/ DeleteGet
    \/ DeleteRooms
    \/ DeleteArea
    \/ CreateRoom
    \/ CreateExit
    \/ CreateArea

SpecImport == InitImport /\ [][NextImport]_vars

(* ----------------------------- properties ----------------------------- *)

\* the sub-parser call of the latest dispatcher iteration, made again
LastCall == SectionCall(Trim(lines[last.from - 1]), lines, last.from - 1)

\* C1: parse_area_file is fail-fast: when the header, room, object or reset
\* sub-parser reports a ParseError, parse_area_file returns that same error,
\* the cursor stays where the sub-parser left it, the returned value holds no
\* AreaFile, and nothing happens after the return.
C1_FailFast ==
    /\ [](last.kind # "none" /\ ~last.ok /\ last.err # "panic" =>
            /\ status = "done"
            /\ ret = [tag |-> "Err", error |-> LastCall.err]
            /\ pos = LastCall.pos)
    /\ [][status = "done" => UNCHANGED vars]_vars

\* an error returned after an earlier section was parsed, with lines left unread
C1_Witness ==
    /\ status = "done"
    /\ ret.tag = "Err"
    /\ ~last.ok
    /\ area # AreaFile_default
    /\ pos <= Len(lines)

RecognisedSections == {M_AREA, M_ROOMS, M_OBJECTS, M_RESETS}

RecognisedMarkers == RecognisedSections \cup {M_END}

IsSectionMarker(line) == Trim(line) \in RecognisedSections

\* the index of the first line from p on whose trimmed text is in `marks`,
\* Len(ls) + 1 if there is none
RECURSIVE FirstFrom(_, _, _)
FirstFrom(ls, p, marks) ==
    IF p > Len(ls) THEN p
    ELSE IF Trim(ls[p]) \in marks THEN p ELSE FirstFrom(ls, p + 1, marks)

\* the line that closes a section of each kind in a ROM area file
Terminator(kind) ==
    CASE kind = "rooms" -> M_ZERO
      [] kind = "objects" -> M_ZERO
      [] kind = "resets" -> <<"S">>
      [] kind = "header" -> M_END

\* the latest sub-parser call, made on the lines before index j with the
\* section's terminator in place of line j: where its own loop stops
CallBefore(j) ==
    SectionCall(Trim(lines[last.from - 1]),
                SubSeq(lines, 1, j - 1) \o <<Terminator(last.kind)>>, last.from - 1)

\* a recognised section marker follows the section of the latest call, and the
\* lines between are complete records of that section
MarkerFollows(j) ==
    /\ last.kind # "none"
    /\ j = FirstFrom(lines, last.from, RecognisedSections)
    /\ j <= Len(lines)
    /\ CallBefore(j).ok
    /\ CallBefore(j).pos <= j

\* the markers each sub-parser stops at
LeavesMarker(kind, marker) ==
    \/ kind = "header"
    \/ kind = "rooms" /\ marker \in {M_OBJECTS, M_RESETS}
    \/ kind = "objects" /\ marker \in {M_ROOMS, M_RESETS}

\* C2 as stated: whenever a recognised section marker follows a section, in any
\* order, the section's sub-parser returns without consuming the marker line.
C2_AnyOrder ==
    \A j \in 1..Len(lines) : MarkerFollows(j) => last.ok /\ last.to <= j

\* C2: when a recognised section marker follows the complete records of a
\* section, the sub-parser returns without consuming the marker if the section
\* was closed by its terminator before it, if it is the header parser, or if
\* the marker is #OBJECTS or #RESETS after rooms, #ROOMS or #RESETS after
\* objects; otherwise parse_rooms and parse_objects consume the marker and fail
\* with InvalidVnum, and parse_resets consumes it as an unknown command.  The
\* dispatcher delegates every section marker it peeks to the matching
\* sub-parser.
C2_ListedMarkers ==
    /\ [](\A j \in 1..Len(lines) : MarkerFollows(j) =>
            IF CallBefore(j).pos < j \/ LeavesMarker(last.kind, Trim(lines[j]))
            THEN last.ok /\ last.to = CallBefore(j).pos /\ pos = last.to
            ELSE IF last.kind = "resets" THEN last.to > j
            ELSE ~last.ok /\ last.err = "InvalidVnum" /\ last.to = j + 1)
    /\ [][Peeking /\ IsSectionMarker(lines[pos]) =>
            /\ last'.kind = FieldOf(Trim(lines[pos]))
            /\ last'.from = pos + 1]_vars

\* parse_rooms has met #OBJECTS in its own loop and returned in front of it
C2_Witness ==
    /\ last.kind = "rooms"
    /\ last.ok
    /\ pos = last.to
    /\ pos <= Len(lines)
    /\ Trim(lines[pos]) = M_OBJECTS
    /\ MarkerFollows(pos)
    /\ CallBefore(pos).pos = pos

IsUnknownMarker(line) == Trim(line) \in {M_MOBILES, M_SHOPS, M_SPECIALS, M_HELPS}

\* ls without its lines p .. q - 1
RemoveRange(ls, p, q) == SubSeq(ls, 1, p - 1) \o SubSeq(ls, q, Len(ls))

\* ls without its unknown sections: each unknown marker line and the lines
\* after it up to the next recognised marker
RECURSIVE StripUnknown(_, _)
StripUnknown(ls, p) ==
    IF p > Len(ls) THEN <<>>
    ELSE IF IsUnknownMarker(ls[p])
    THEN Bind(FirstFrom(ls, p + 1, RecognisedMarkers), LAMBDA j : StripUnknown(ls, j))
    ELSE <<ls[p]>> \o StripUnknown(ls, p + 1)

\* C3 as stated: an unknown section never makes the parse fail and contributes
\* nothing, whichever section precedes it: the file parses to what it parses to
\* without its unknown sections.
C3_AnyPredecessor ==
    status = "done" =>
        \A clean \in {parse_area_file(StripUnknown(lines, 1)).ret} :
            clean.tag = "Ok" => ret = clean

\* C3: when the dispatcher itself peeks the marker line of an unknown section
\* (the section before it has returned in front of that line), the marker and
\* the lines up to the next recognised marker are skipped one at a time, never
\* fail, and contribute nothing: the parse returns what it returns without them.
C3_SkippedByDispatcher ==
    /\ [](Peeking /\ IsUnknownMarker(lines[pos]) =>
            \A j \in {FirstFrom(lines, pos + 1, RecognisedMarkers)} :
                DispatchLoop(lines, pos, area, tildes).ret
                    = DispatchLoop(RemoveRange(lines, pos, j), pos, area, tildes).ret)
    /\ [][Peeking /\ (\E u \in 1..pos : /\ IsUnknownMarker(lines[u])
                                         /\ FirstFrom(lines, u + 1, RecognisedMarkers) > pos) =>
            /\ pos' = pos + 1
            /\ status' = "running"
            /\ <<area', ret'>> = <<area, ret>>]_vars

\* the dispatcher peeks an unknown marker between two parsed sections
C3_Witness ==
    /\ Peeking
    /\ IsUnknownMarker(lines[pos])
    /\ area # AreaFile_default
    /\ \E j \in (pos + 1)..Len(lines) : IsSectionMarker(lines[j])

\* C4: when the dispatcher peeks a line whose trimmed text is #$ it stops: the
\* cursor stays on that line, and the returned AreaFile is the one the lines up
\* to it give, whatever follows.
C4_EndStopsScan ==
    [][Peeking /\ Trim(lines[pos]) = M_END =>
        /\ status' = "done"
        /\ pos' = pos
        /\ ret'.tag = "Ok"
        /\ ret' = parse_area_file(SubSeq(lines, 1, pos)).ret
        /\ ret' = parse_area_file(SubSeq(lines, 1, pos - 1)).ret]_vars

\* the scan has stopped at #$ in front of text that does not parse
C4_Witness ==
    /\ status = "done"
    /\ ret.tag = "Ok"
    /\ pos < Len(lines)
    /\ Trim(lines[pos]) = M_END
    /\ area # AreaFile_default
    /\ parse_area_file(SubSeq(lines, pos + 1, Len(lines))).ret.tag = "Err"

TildeEnds(line) == EndsWithChar(TrimEnd(line), "~")

NoTildeFrom(ls, p) == \A i \in p..Len(ls) : ~TildeEnds(ls[i])

\* the index of the first line from p on that ends a tilde string
RECURSIVE FirstTilde(_, _)
FirstTilde(ls, p) ==
    IF p > Len(ls) THEN p ELSE IF TildeEnds(ls[p]) THEN p ELSE FirstTilde(ls, p + 1)

\* segs joined with a newline between two segments
RECURSIVE JoinLines(_)
JoinLines(segs) ==
    IF segs = <<>> THEN <<>>
    ELSE IF Len(segs) = 1 THEN segs[1]
    ELSE segs[1] \o <<NL>> \o JoinLines(Tail(segs))

\* text split at every newline
RECURSIVE SplitLines(_, _)
SplitLines(text, cur) ==
    IF text = <<>> THEN <<cur>>
    ELSE IF Head(text) = NL THEN <<cur>> \o SplitLines(Tail(text), <<>>)
    ELSE SplitLines(Tail(text), Append(cur, Head(text)))

ButLast(s) == SubSeq(s, 1, Len(s) - 1)

\* C5: read_until_tilde consumes the lines up to and including the first one
\* that ends in `~` after trimming trailing whitespace; its result is those
\* lines joined with a newline, only the single terminating `~` removed from the
\* last line (a last line left empty adds no segment), trimmed as a whole; `~`
\* alone gives the empty string.
C5_SingleTildeRemoved ==
    entry = "read_until_tilde" /\ status = "done" /\ ~NoTildeFrom(lines, 1) =>
        \A k \in {FirstTilde(lines, 1)} :
        \A final \in {ButLast(TrimEnd(lines[k]))} :
            /\ pos = k + 1
            /\ ret = [tag |-> "Ok",
                      value |-> Trim(JoinLines(SubSeq(lines, 1, k - 1)
                                     \o (IF final = <<>> THEN <<>> ELSE <<final>>)))]

\* C6: if no remaining line ends in `~`, read_until_tilde fails with
\* UnexpectedEof after consuming every remaining line, however many there are,
\* and that error aborts the whole parse.
C6_MissingTerminator ==
    /\ entry = "read_until_tilde" /\ status = "done" /\ NoTildeFrom(lines, 1) =>
          /\ ret = [tag |-> "Err", error |-> "UnexpectedEof"]
          /\ pos = Len(lines) + 1
    /\ entry = "parse_area_file" /\ last.kind = "header" /\ NoTildeFrom(lines, last.from) =>
          /\ status = "done"
          /\ ret = [tag |-> "Err", error |-> "UnexpectedEof"]
          /\ pos = Len(lines) + 1

\* the first header field ran to the end of a file of several lines
C6_Witness ==
    /\ entry = "parse_area_file"
    /\ last.kind = "header"
    /\ Len(lines) >= 3
    /\ NoTildeFrom(lines, 2)
    /\ ret = [tag |-> "Err", error |-> "UnexpectedEof"]
    /\ pos = Len(lines) + 1

LastText(line) == TrimEndMatches(TrimEnd(line), "~")

\* the whole-field trim and the dropped empty last segment change nothing
KeepsItsLines(ls, k) ==
    /\ ls[1] # <<>>
    /\ ~IsWhitespace(ls[1][1])
    /\ LastText(ls[k]) # <<>>
    /\ ~IsWhitespace(LastText(ls[k])[Len(LastText(ls[k]))])

Failed(error) == [tag |-> "Err", error |-> error]

\* C7 as stated: for every area file that parses successfully and every
\* tilde-terminated field in it, removing the line that terminates the field
\* makes parse_area_file fail with UnexpectedEof.
C7_TruncationIsEof ==
    entry = "parse_area_file" /\ status = "done" /\ ret.tag = "Ok" =>
        \A p \in tildes : parse_area_file(RemoveAt(lines, p)).ret = Failed("UnexpectedEof")

\* C7: for every area file that parses successfully and every tilde-terminated
\* field in it that no later line ending in `~` follows, removing the line that
\* terminates the field makes parse_area_file fail with UnexpectedEof (with a
\* later `~` line the field absorbs the lines up to it and the parse goes on).
C7_TruncationOfLastField ==
    entry = "parse_area_file" /\ status = "done" /\ ret.tag = "Ok" =>
        \A p \in tildes :
            NoTildeFrom(lines, p + 1) =>
                parse_area_file(RemoveAt(lines, p)).ret = Failed("UnexpectedEof")

\* a file with a header and an object parsed, and the last field of the
\* object, once cut, runs to the end of the file
C7_Witness ==
    /\ entry = "parse_area_file"
    /\ status = "done"
    /\ ret.tag = "Ok"
    /\ ret.area.header.filename # <<>>
    /\ ret.area.objects # <<>>
    /\ \E p \in tildes :
          /\ NoTildeFrom(lines, p + 1)
          /\ p < Len(lines)
          /\ parse_area_file(RemoveAt(lines, p)).ret = Failed("UnexpectedEof")

\* C9: parse_area_header reads filename, name and credits as three tilde
\* strings in that order, then one line whose first two whitespace-separated
\* tokens become min_vnum and max_vnum, later tokens ignored; any two integers
\* (tokens that parse as i32) are accepted, min_vnum > max_vnum included; fewer
\* than two tokens is MissingField, a token that is not an integer is a
\* numeric-parse error, and input that ends before the four fields are read is
\* UnexpectedEof.
C9_HeaderContract ==
    entry = "parse_area_header" /\ status = "done" =>
        \A k1 \in {FirstTilde(lines, 1)} :
        \A k2 \in {FirstTilde(lines, k1 + 1)} :
        \A k3 \in {FirstTilde(lines, k2 + 1)} :
            IF k3 + 1 > Len(lines) THEN ret = Failed("UnexpectedEof")
            ELSE \A toks \in {split_whitespace(lines[k3 + 1])} :
                 IF Len(toks) < 2 THEN ret = Failed("MissingField")
                 ELSE IF ~parse_i32(toks[1]).ok \/ ~parse_i32(toks[2]).ok
                 THEN ret = Failed("ParseInt")
                 ELSE /\ ret = [tag |-> "Ok",
                                header |-> [filename |-> read_until_tilde(lines, 1).val,
                                            name |-> read_until_tilde(lines, k1 + 1).val,
                                            credits |-> read_until_tilde(lines, k2 + 1).val,
                                            min_vnum |-> parse_i32(toks[1]).val,
                                            max_vnum |-> parse_i32(toks[2]).val]]
                      /\ pos = k3 + 2

\* a header with three different fields and min_vnum above max_vnum was accepted
C9_Witness ==
    /\ entry = "parse_area_header"
    /\ status = "done"
    /\ ret.tag = "Ok"
    /\ ret.header.min_vnum > ret.header.max_vnum
    /\ ret.header.filename # ret.header.name
    /\ ret.header.name # ret.header.credits

\* the lines that end a rooms or an objects section, as the two contracts list them
C10_SectionEnd(kind, trimmed) ==
    \/ \E m \in {M_RESETS, M_MOBILES, M_SHOPS, M_SPECIALS, M_END,
                 IF kind = "rooms" THEN M_OBJECTS ELSE M_ROOMS} : StartsWith(trimmed, m)
    \/ trimmed = M_ZERO

\* C10: after every Ok return of parse_rooms (parse_objects) the cursor is at
\* the end of input or on a line that, trimmed as the parser compares it, starts
\* with #RESETS, #MOBILES, #OBJECTS (#ROOMS), #SHOPS, #SPECIALS or #$ or is
\* exactly #0; the line is not consumed, it is the line the dispatcher reads next.
C10_StopsOnTerminator ==
    last.kind \in {"rooms", "objects"} /\ last.ok =>
        /\ pos = last.to
        /\ status = "running"
        /\ pos > Len(lines) \/ C10_SectionEnd(last.kind, Trim(lines[pos]))

\* parse_rooms returned its rooms on a #0 line written with spaces around it
C10_Witness ==
    /\ last.kind = "rooms"
    /\ last.ok
    /\ area.rooms # <<>>
    /\ pos <= Len(lines)
    /\ lines[pos] = L_zeroPad

\* C11: parse_single_room ends its exit/extra-description loop only by
\* consuming a line that is exactly `S`: a room is returned only for a block
\* that holds its own `S` line, the lines consumed run from the `#<vnum>` marker
\* to that `S`, and a block whose `S` is missing (end of input, a `#<vnum>`
\* marker or a section marker comes first) is never returned as a room.
C11_EndsOnlyOnS ==
    entry = "parse_single_room" /\ status = "done" /\ ret.tag = "Ok" =>
        /\ pos - 1 > Len(RoomHead)
        /\ Trim(lines[pos - 1]) = L_S
        /\ \A i \in 2..(pos - 2) : ~StartsWith(Trim(lines[i]), <<"#">>)

\* C12: parse_room_attributes maps a line `area_vnum room_flags sector_code`
\* to (area_vnum, flags, sector): flags is the union of the flags of the
\* recognised letters of room_flags, each character decoded on its own and the
\* others ignored (C, D, S give NO_RECALL, DARK, SAFE), sector is the sector of
\* code 0..10; fewer than three tokens is InvalidRoomAttributes, an integer
\* sector code outside 0..10 is InvalidSectorType.
C12_RoomAttributes ==
    entry = "parse_room_attributes" /\ status = "done" =>
        \A toks \in {split_whitespace(lines[1])} :
        IF Len(toks) < 3 THEN ret = Failed("InvalidRoomAttributes")
        ELSE \A a \in {parse_i32(toks[1])} : \A c \in {parse_i32(toks[3])} :
             IF ~a.ok \/ ~c.ok THEN ret = Failed("ParseInt")
             ELSE IF c.val \notin 0..10 THEN ret = Failed("InvalidSectorType")
             ELSE /\ ret.tag = "Ok"
                  /\ ret.value.area_vnum = a.val
                  /\ ret.value.sector_type = SectorNames[c.val + 1]
                  /\ ret.value.room_flags
                        = UNION {RoomFlagOf(toks[2][i]) : i \in 1..Len(toks[2])}
                  /\ \A i \in 1..Len(toks[2]) :
                        /\ toks[2][i] = "C" => "NO_RECALL" \in ret.value.room_flags
                        /\ toks[2][i] = "D" => "DARK" \in ret.value.room_flags
                        /\ toks[2][i] = "S" => "SAFE" \in ret.value.room_flags

\* the flags CDS and the last sector code were decoded
C12_Witness ==
    /\ entry = "parse_room_attributes"
    /\ status = "done"
    /\ ret.tag = "Ok"
    /\ ret.value.room_flags = {"NO_RECALL", "DARK", "SAFE"}
    /\ ret.value.sector_type = "Desert"

\* C13: parse_direction accepts exactly the lines `D0` .. `D5`, whitespace
\* around them ignored, and maps the digit to North, East, South, West, Up,
\* Down in that order; every other line (another first letter, no digit, a
\* digit above 5, any other character after `D`) fails with InvalidDirection.
C13_ExactlyD0toD5 ==
    entry = "parse_direction" /\ status = "done" =>
        \A t \in {Trim(lines[1])} :
        IF Len(t) = 2 /\ t[1] = "D" /\ (\E d \in 0..5 : t[2] = DigitChars[d + 1])
        THEN \E d \in 0..5 : /\ t[2] = DigitChars[d + 1]
                             /\ ret = [tag |-> "Ok", value |-> DirectionNames[d + 1]]
        ELSE ret = Failed("InvalidDirection")

\* C14: parse_exit reads, in order, the direction line, a description tilde
\* string, a keyword tilde string and one data line; an empty keyword is
\* recorded as no keyword and a non-empty one as that keyword; the first three
\* tokens of the data line become door_flags, key_vnum, to_room; a data line
\* with fewer than three tokens fails with InvalidExitData.
C14_ExitContract ==
    entry = "parse_exit" /\ status = "done" =>
        IF lines = <<>> THEN ret = Failed("UnexpectedEof")
        ELSE IF ~parse_direction(lines[1]).ok THEN ret = Failed("InvalidDirection")
        ELSE \A k1 \in {FirstTilde(lines, 2)} :
             \A k2 \in {FirstTilde(lines, k1 + 1)} :
             IF k2 + 1 > Len(lines) THEN ret = Failed("UnexpectedEof")
             ELSE \A toks \in {split_whitespace(lines[k2 + 1])} :
                  \A kw \in {read_until_tilde(lines, k1 + 1).val} :
                  IF Len(toks) < 3 THEN ret = Failed("InvalidExitData")
                  ELSE IF \E i \in 1..3 : ~parse_i32(toks[i]).ok THEN ret = Failed("ParseInt")
                  ELSE /\ ret = [tag |-> "Ok",
                                 exit |-> [direction |-> parse_direction(lines[1]).val,
                                           description |-> read_until_tilde(lines, 2).val,
                                           keyword |-> IF kw = <<>> THEN <<>> ELSE <<kw>>,
                                           door_flags |-> parse_i32(toks[1]).val,
                                           key_vnum |-> parse_i32(toks[2]).val,
                                           to_room |-> parse_i32(toks[3]).val]]
                       /\ pos = k2 + 2

\* an exit with a description of two lines, no keyword and three different
\* numbers was read
C14_Witness ==
    /\ entry = "parse_exit"
    /\ status = "done"
    /\ ret.tag = "Ok"
    /\ ret.exit.keyword = <<>>
    /\ ret.exit.description = <<"x", NL, "d">>
    /\ <<ret.exit.door_flags, ret.exit.key_vnum, ret.exit.to_room>> = <<1, -1, 3>>

\* the directions of the lines from..to that open a `D` block, in line order
RECURSIVE BlockDirections(_, _, _)
BlockDirections(ls, from, to) ==
    IF from > to THEN <<>>
    ELSE IF StartsWith(Trim(ls[from]), <<"D">>)
    THEN <<parse_direction(ls[from]).val>> \o BlockDirections(ls, from + 1, to)
    ELSE BlockDirections(ls, from + 1, to)

ExitDirections(exits) == [i \in 1..Len(exits) |-> exits[i].direction]

\* C15 as stated: every AreaRoom returned holds between 0 and 6 AreaExit
\* records, in the order in which their `D` blocks appear in the room.
C15_AtMostSixExits ==
    entry = "parse_single_room" /\ status = "done" /\ ret.tag = "Ok" =>
        /\ Len(ret.room.exits) <= 6
        /\ ExitDirections(ret.room.exits) = BlockDirections(lines, Len(RoomHead) + 1, pos - 1)

\* C15: every AreaRoom returned holds one AreaExit for each `D` block of the
\* room, in the order in which the blocks appear; their number is not limited
\* to 6, and two blocks for one direction give two records.
C15_OneExitPerBlock ==
    entry = "parse_single_room" /\ status = "done" /\ ret.tag = "Ok" =>
        ExitDirections(ret.room.exits) = BlockDirections(lines, Len(RoomHead) + 1, pos - 1)

\* a room with seven `D` blocks, the seventh for the direction of the first,
\* came back with seven exits
C15_Witness ==
    /\ entry = "parse_single_room"
    /\ status = "done"
    /\ ret.tag = "Ok"
    /\ Len(ret.room.exits) = 7
    /\ ret.room.exits[1].direction = ret.room.exits[7].direction
    /\ ret.room.exits[1].direction # ret.room.exits[2].direction

\* the `E` lines met from p on, outside the two tilde strings of an earlier
\* `E` block, up to the first line that starts with `#`; stop is that line
RECURSIVE ExtraBlocksFrom(_, _, _)
ExtraBlocksFrom(ls, p, found) ==
    IF p > Len(ls) THEN [stop |-> p, at |-> found]
    ELSE IF Trim(ls[p]) = L_E
    THEN ExtraBlocksFrom(ls, FirstTilde(ls, FirstTilde(ls, p + 1) + 1) + 1, Append(found, p))
    ELSE IF StartsWith(Trim(ls[p]), <<"#">>) THEN [stop |-> p, at |-> found]
    ELSE ExtraBlocksFrom(ls, p + 1, found)

\* the extra description written in the block whose `E` line is line e
ExtraDescriptionAt(ls, e) ==
    [keywords |-> split_whitespace(read_until_tilde(ls, e + 1).val),
     description |-> read_until_tilde(ls, FirstTilde(ls, e + 1) + 1).val]

\* C16: after an object's fixed fields parse_single_object consumes zero or
\* more `E` blocks, attaching each to the object in order, and stops without
\* consuming it at the first line that starts with `#`, or at the end of input:
\* that line is the next one parse_objects reads.
C16_ObjectTail ==
    entry = "parse_single_object" /\ status = "done" /\ ret.tag = "Ok" =>
        \A t \in {ExtraBlocksFrom(lines, Len(ObjectHead) + 1, <<>>)} :
            /\ pos = t.stop
            /\ pos > Len(lines) \/ StartsWith(Trim(lines[pos]), <<"#">>)
            /\ ret.object.extra_descriptions
                  = [i \in 1..Len(t.at) |-> ExtraDescriptionAt(lines, t.at[i])]

\* an object with two different `E` blocks came back with both, the cursor on
\* the marker of the next object
C16_Witness ==
    /\ entry = "parse_single_object"
    /\ status = "done"
    /\ ret.tag = "Ok"
    /\ Len(ret.object.extra_descriptions) = 2
    /\ ret.object.extra_descriptions[1].keywords = <<<<"k">>>>
    /\ ret.object.extra_descriptions[2].keywords = <<<<"a">>>>
    /\ pos <= Len(lines)
    /\ lines[pos] = L_v3

\* the integer value of token i of toks, 0 when the token is absent or no integer
IntegerOrZero(toks, i) ==
    IF i <= Len(toks) /\ parse_i32(toks[i]).ok THEN parse_i32(toks[i]).val ELSE 0

\* C17: parse_object_values_line never fails, for any line: value0, value1,
\* value3 and value4 are the integer value of tokens 0, 1, 3 and 4 when that
\* token is present and is an integer, and 0 when it is absent or not an integer.
C17_ValuesNeverFail ==
    entry = "parse_object_values_line" /\ status = "done" =>
        \A toks \in {split_whitespace(lines[1])} :
            /\ ret.tag = "Ok"
            /\ ret.value.value0 = IntegerOrZero(toks, 1)
            /\ ret.value.value1 = IntegerOrZero(toks, 2)
            /\ ret.value.value3 = IntegerOrZero(toks, 4)
            /\ ret.value.value4 = IntegerOrZero(toks, 5)

\* a line of four tokens, the first and the fourth no integers, was accepted
C17_Witness ==
    /\ entry = "parse_object_values_line"
    /\ status = "done"
    /\ ret.tag = "Ok"
    /\ Len(split_whitespace(lines[1])) = 4
    /\ split_whitespace(lines[1])[1] = N_word
    /\ split_whitespace(lines[1])[4] = N_float
    /\ <<ret.value.value0, ret.value.value1, ret.value.value3, ret.value.value4>>
          = <<0, -2, 0, 0>>

\* tok without one quote character at its front and one at its end, where present
StripOneQuote(tok) ==
    LET front == IF IsQuote(tok[1]) THEN Tail(tok) ELSE tok IN
    IF front # <<>> /\ IsQuote(front[Len(front)]) THEN ButLast(front) ELSE front

\* tok without the quote at its front and the quote at its end, when it has both
StripQuotePair(tok) ==
    IF Len(tok) >= 2 /\ IsQuote(tok[1]) /\ IsQuote(tok[Len(tok)])
    THEN SubSeq(tok, 2, Len(tok) - 1) ELSE tok

\* C18 as stated: for every values line, value2 is the third token verbatim,
\* with a leading quote character and a trailing quote character removed when
\* present (each on its own, or the two as a pair) and the raw token kept
\* otherwise; it is never read as a number.
C18_OneQuoteEachEnd ==
    entry = "parse_object_values_line" /\ status = "done"
        /\ Len(split_whitespace(lines[1])) >= 3 =>
        \A tok \in {split_whitespace(lines[1])[3]} :
            ret.value.value2 \in {StripOneQuote(tok), StripQuotePair(tok)}

\* tok from its first to its last character that is no quote
WithoutOuterQuotes(tok) ==
    LET inner == {i \in 1..Len(tok) : ~IsQuote(tok[i])} IN
    IF inner = {} THEN <<>>
    ELSE SubSeq(tok, CHOOSE i \in inner : \A j \in inner : i <= j,
                     CHOOSE i \in inner : \A j \in inner : i >= j)

\* C18: for every values line, value2 is the third token verbatim when the
\* token does not begin with a quote character (' or "), a quote at its end
\* then being kept, and otherwise the token without all the quote characters at
\* its front and at its end; with fewer than three tokens it is the text `0`;
\* it is never read as a number.
C18_QuotedFromTheFront ==
    entry = "parse_object_values_line" /\ status = "done" =>
        \A toks \in {split_whitespace(lines[1])} :
            ret.value.value2 = IF Len(toks) < 3 THEN <<"0">>
                               ELSE IF IsQuote(toks[3][1]) THEN WithoutOuterQuotes(toks[3])
                               ELSE toks[3]

\* a third token with two quotes at each end lost all four
C18_Witness ==
    /\ entry = "parse_object_values_line"
    /\ status = "done"
    /\ Len(split_whitespace(lines[1])) >= 3
    /\ split_whitespace(lines[1])[3] = <<Q1, Q1, "a", Q1, Q1>>
    /\ ret.tag = "Ok"
    /\ ret.value.value2 = <<"a">>

\* what a weight line of at least four tokens gives
WeightOutcome(toks) ==
    IF \E i \in 1..3 : ~parse_i32(toks[i]).ok THEN Failed("ParseInt")
    ELSE [tag |-> "Ok",
          value |-> [weight |-> parse_i32(toks[1]).val, cost |-> parse_i32(toks[2]).val,
                     level |-> parse_i32(toks[3]).val, condition |-> toks[4]]]

\* C19 as stated: parse_object_weight_line requires a line of exactly four
\* tokens weight, cost, level, condition: fewer than four is
\* InvalidObjectWeightCost, a line of another length is not accepted, a
\* non-integer weight, cost or level is a numeric-parse error and no default
\* value is substituted.
C19_ExactlyFourTokens ==
    entry = "parse_object_weight_line" /\ status = "done" =>
        \A toks \in {split_whitespace(lines[1])} :
            IF Len(toks) < 4 THEN ret = Failed("InvalidObjectWeightCost")
            ELSE IF Len(toks) = 4 THEN ret = WeightOutcome(toks)
            ELSE ret.tag = "Err"

\* C19: parse_object_weight_line requires a line of at least four tokens, the
\* first four being weight, cost, level, condition and later ones ignored:
\* fewer than four is InvalidObjectWeightCost, a non-integer weight, cost or
\* level is a numeric-parse error, and no default value is substituted.
C19_AtLeastFourTokens ==
    entry = "parse_object_weight_line" /\ status = "done" =>
        \A toks \in {split_whitespace(lines[1])} :
            IF Len(toks) < 4 THEN ret = Failed("InvalidObjectWeightCost")
            ELSE ret = WeightOutcome(toks)

\* a line of five tokens was accepted, its fifth token left out
C19_Witness ==
    /\ entry = "parse_object_weight_line"
    /\ status = "done"
    /\ Len(split_whitespace(lines[1])) = 5
    /\ ret = [tag |-> "Ok",
              value |-> [weight |-> 1, cost |-> -2, level |-> 3, condition |-> <<"P">>]]

\* the tokens of a reset line, what follows the first `*` left out
ResetTokens(line) ==
    LET star == {i \in 1..Len(line) : line[i] = "*"} IN
    IF star = {} THEN split_whitespace(line)
    ELSE split_whitespace(SubSeq(line, 1, (CHOOSE i \in star : \A j \in star : i <= j) - 1))

\* the variant and the fields, in token order, of each reset command
ResetShape(command) ==
    CASE command = <<"M">> ->
           <<"Mobile", <<"if_flag", "mob_vnum", "limit", "room_vnum", "max_in_room">>>>
      [] command = <<"O">> ->
           <<"ObjectInRoom", <<"if_flag", "obj_vnum", "limit", "room_vnum">>>>
      [] command = <<"G">> -> <<"GiveObject", <<"if_flag", "obj_vnum", "limit">>>>
      [] command = <<"E">> ->
           <<"EquipObject", <<"if_flag", "obj_vnum", "limit", "wear_location">>>>
      [] command = <<"P">> ->
           <<"PutInContainer", <<"if_flag", "obj_vnum", "limit", "container_vnum">>>>
      [] command = <<"D">> -> <<"Door", <<"room_vnum", "direction", "state">>>>
      [] command = <<"R">> -> <<"RandomizeExits", <<"room_vnum", "num_exits">>>>

\* the Reset of shape built from the tokens after the command
ResetFrom(shape, toks) ==
    [name \in {"kind"} \cup {shape[2][i] : i \in 1..Len(shape[2])} |->
        IF name = "kind" THEN shape[1]
        ELSE parse_i32(toks[1 + CHOOSE i \in 1..Len(shape[2]) : shape[2][i] = name]).val]

\* C20: for a reset line whose first token is M, O, G, E, P, D or R,
\* parse_single_reset returns the matching Reset variant built from the integer
\* tokens that follow, in order, when at least 6 (M), 5 (O, E, P), 4 (G, D) or
\* 3 (R) tokens are present before any `*` comment; with fewer tokens it fails
\* with InvalidResetCommand, and with a field that is no integer it fails with
\* a numeric-parse error: no field defaults to 0.
C20_ResetArity ==
    entry = "parse_single_reset" /\ status = "done" =>
        \A toks \in {ResetTokens(lines[1])} :
        toks # <<>> /\ toks[1] \in ResetCommands =>
            \A shape \in {ResetShape(toks[1])} :
            IF Len(toks) < Len(shape[2]) + 1 THEN ret = Failed("InvalidResetCommand")
            ELSE IF \E i \in 1..Len(shape[2]) : ~parse_i32(toks[i + 1]).ok
            THEN ret = Failed("ParseInt")
            ELSE ret = [tag |-> "Ok", value |-> <<ResetFrom(shape, toks)>>]

\* an M line of seven tokens gave a Mobile with its five fields in order
C20_Witness ==
    /\ entry = "parse_single_reset"
    /\ status = "done"
    /\ Len(ResetTokens(lines[1])) = 7
    /\ ret = [tag |-> "Ok",
              value |-> <<[kind |-> "Mobile", if_flag |-> 0, mob_vnum |-> 10, limit |-> 2,
                           room_vnum |-> 30, max_in_room |-> 4]>>]

\* a line that ends the reset section
EndsResets(line) ==
    \/ \E m \in {M_SHOPS, M_SPECIALS, M_END} : StartsWith(Trim(line), m)
    \/ Trim(line) = L_S

\* the first line from p on that ends the reset section (Len + 1: none)
RECURSIVE ResetsStop(_, _)
ResetsStop(ls, p) ==
    IF p > Len(ls) THEN p ELSE IF EndsResets(ls[p]) THEN p ELSE ResetsStop(ls, p + 1)

\* a line of the reset section whose first token is none of the seven commands
UnknownCommand(line) ==
    /\ ResetTokens(line) # <<>>
    /\ ResetTokens(line)[1] \notin ResetCommands

\* what parse_resets gives for ls, as the ret of a call
ResetsOf(ls) ==
    LET r == parse_resets(ls, 1) IN
    IF r.ok THEN [tag |-> "Ok", resets |-> r.val] ELSE [tag |-> "Err", error |-> r.err]

\* C21: a reset-section line whose first token is not one of M O G E P D R is
\* consumed and ignored: it adds no Reset and raises no error, and the Resets
\* of the lines before and after it are returned unchanged, in file order: the
\* call gives what it gives for the section without that line.
C21_UnknownCommandIgnored ==
    entry = "parse_resets" /\ status = "done" =>
        \A i \in 1..(ResetsStop(lines, 1) - 1) :
            UnknownCommand(lines[i]) =>
                /\ ret = ResetsOf(RemoveAt(lines, i))
                /\ parse_single_reset(lines[i]) = Val(<<>>)
                /\ ret.tag = "Ok" => pos > i

\* an X line between an M line and an R line: both resets came back, in order
C21_Witness ==
    /\ entry = "parse_resets"
    /\ status = "done"
    /\ lines = <<L_resetM, L_resetX, L_resetR>>
    /\ ret.tag = "Ok"
    /\ Len(ret.resets) = 2
    /\ ret.resets[1].kind = "Mobile"
    /\ ret.resets[2].kind = "RandomizeExits"
    /\ pos = 4

\* a line parse_resets passes over without parsing it
SkippedReset(line) == Trim(line) = <<>> \/ StartsWith(Trim(line), <<"*">>)

\* the text of a line in front of its first `*`
BeforeStar(line) ==
    LET star == {i \in 1..Len(line) : line[i] = "*"} IN
    IF star = {} THEN line
    ELSE SubSeq(line, 1, (CHOOSE i \in star : \A j \in star : i <= j) - 1)

\* ls with line i replaced by text
ReplaceAt(ls, i, text) == [ls EXCEPT ![i] = text]

\* C22: in the reset section an empty line or a line starting with `*` is
\* skipped, and on any other line everything from the first `*` on is
\* discarded before the line is tokenized: the line parses to the Reset of
\* the line without the comment, and the call gives what it gives for the
\* section with the comment cut off.
C22_CommentsDiscarded ==
    entry = "parse_resets" /\ status = "done" =>
        \A i \in 1..(ResetsStop(lines, 1) - 1) :
            IF SkippedReset(lines[i])
            THEN /\ ret = ResetsOf(RemoveAt(lines, i))
                 /\ ret.tag = "Ok" => pos > i
            ELSE /\ parse_single_reset(lines[i]) = parse_single_reset(BeforeStar(lines[i]))
                 /\ ~EndsResets(BeforeStar(lines[i])) =>
                        ret = ResetsOf(ReplaceAt(lines, i, BeforeStar(lines[i])))

\* C22 (the example): `M 0 3050 1 3001 1 *comment` gives the Mobile reset
\* with if_flag 0, mob_vnum 3050, limit 1, room_vnum 3001, max_in_room 1.
C22_Scenario ==
    /\ entry = "parse_resets"
    /\ status = "done"
    /\ lines # <<>>
    /\ lines[1] = L_scenario4
    /\ ret.tag = "Ok"
    => ret.resets[1] = [kind |-> "Mobile", if_flag |-> 0, mob_vnum |-> 3050, limit |-> 1,
                        room_vnum |-> 3001, max_in_room |-> 1]

\* C22: blank lines and `*` lines of the reset section are skipped and an
\* inline `*` comment is discarded before tokenizing, so that a line with a
\* trailing comment parses to the Reset of the line without it, the example
\* `M 0 3050 1 3001 1 *comment` included.
C22_Holds == C22_CommentsDiscarded /\ C22_Scenario

\* a comment line, then the example line, then a reset with a glued comment
C22_Witness ==
    /\ entry = "parse_resets"
    /\ status = "done"
    /\ lines = <<L_comment, L_scenario4, L_resetRc>>
    /\ ret.tag = "Ok"
    /\ Len(ret.resets) = 2
    /\ ret.resets[1].mob_vnum = 3050
    /\ ret.resets[2] = [kind |-> "RandomizeExits", room_vnum |-> 7, num_exits |-> 8]

\* the resets of the parsed lines ls[i..stop-1], in the order of the lines;
\* <<"error", i>> at the first line that does not parse
RECURSIVE ResetsBefore(_, _, _, _)
ResetsBefore(ls, i, stop, acc) ==
    IF i >= stop THEN <<"ok", acc>>
    ELSE IF SkippedReset(ls[i]) THEN ResetsBefore(ls, i + 1, stop, acc)
    ELSE IF ~parse_single_reset(ls[i]).ok THEN <<"error", i>>
    ELSE ResetsBefore(ls, i + 1, stop, acc \o parse_single_reset(ls[i]).val)

\* C23: parse_resets stops, without consuming the line, at the first line that
\* starts with #SHOPS, #SPECIALS or #$ or is exactly `S`; every line before it
\* is consumed exactly once, and the Resets come back in the order of their
\* lines.
C23_StopsAtTerminator ==
    entry = "parse_resets" /\ status = "done" =>
        LET stop == ResetsStop(lines, 1)
            want == ResetsBefore(lines, 1, stop, <<>>)
        IN  IF want[1] = "ok"
            THEN ret = [tag |-> "Ok", resets |-> want[2]] /\ pos = stop
            ELSE ret.tag = "Err" /\ pos = want[2]

\* two resets, then #SHOPS with text behind it: the cursor is on that line
C23_Witness ==
    /\ entry = "parse_resets"
    /\ status = "done"
    /\ lines = <<L_resetR, L_resetM, L_shopsX>>
    /\ ret.tag = "Ok"
    /\ Len(ret.resets) = 2
    /\ ret.resets[1].kind = "RandomizeExits"
    /\ ret.resets[2].kind = "Mobile"
    /\ pos = 3

\* the value of a run of decimal digits, read from the left
RECURSIVE DecimalValue(_)
DecimalValue(ds) ==
    IF ds = <<>> THEN 0 ELSE DecimalValue(ButLast(ds)) * 10 + DigitVal(ds[Len(ds)])

\* ds without its leading zeros
RECURSIVE StripZeros(_)
StripZeros(ds) == IF ds # <<>> /\ ds[1] = "0" THEN StripZeros(Tail(ds)) ELSE ds

\* the digits ds, of the given sign, name a value of the 32-bit range:
\* fewer than ten significant digits, or ten of them not beyond 2147483647
\* (2147483648 below zero)
FitsI32(ds, negative) ==
    LET sig == StripZeros(ds) IN
    \/ Len(sig) < 10
    \/ /\ Len(sig) = 10
       /\ \/ DecimalValue(ButLast(sig)) < I32Max \div 10
          \/ /\ DecimalValue(ButLast(sig)) = I32Max \div 10
             /\ DigitVal(sig[10]) <= (IF negative THEN 8 ELSE 7)

\* text is an integer: an optional sign and one digit or more, within i32
IsIntegerText(text) ==
    LET ds == IF text # <<>> /\ text[1] \in {"+", "-"} THEN Tail(text) ELSE text IN
    /\ ds # <<>>
    /\ \A i \in 1..Len(ds) : IsDigit(ds[i])
    /\ FitsI32(ds, text[1] = "-")

IntegerOf(text) ==
    IF text[1] = "-"
    THEN LET sig == StripZeros(Tail(text)) IN
         IF sig = <<>> THEN 0
         ELSE (-DecimalValue(ButLast(sig))) * 10 - DigitVal(sig[Len(sig)])
    ELSE IF text[1] = "+" THEN DecimalValue(StripZeros(Tail(text)))
    ELSE DecimalValue(StripZeros(text))

\* C24: parse_vnum returns n for a line that after trimming is `#` followed
\* by an integer n, and fails with InvalidVnum for every other line.
C24_VnumLine ==
    entry = "parse_vnum" /\ status = "done" =>
        \A t \in {Trim(lines[1])} :
            IF t # <<>> /\ t[1] = "#" /\ IsIntegerText(Tail(t))
            THEN ret = [tag |-> "Ok", value |-> IntegerOf(Tail(t))]
            ELSE ret = [tag |-> "Err", error |-> "InvalidVnum"]

\* `  #3050  ` gave 3050
C24_Witness ==
    /\ entry = "parse_vnum"
    /\ status = "done"
    /\ lines[1] = <<" ", " ", "#", "3", "0", "5", "0", " ", " ">>
    /\ ret = [tag |-> "Ok", value |-> 3050]

\* C28: parse_area_file never ends abnormally: every call returns Ok or Err,
\* also on a room-body line that starts with `D` followed by a multi-byte
\* character.
C28_NeverAborts ==
    entry = "parse_area_file" => ret.tag \in {"None", "Ok", "Err"}

\* the dispatcher is on a section marker it delegates
OnSection ==
    /\ Peeking
    /\ Arm(Trim(lines[pos])) = "delegate"

\* the field the section under the cursor is parsed into, and the parse
SectionField == FieldOf(Trim(lines[pos]))

SectionResult == SectionCall(Trim(lines[pos]), lines, pos)

\* a successful section replaces its field and leaves the other three alone
SectionReplaces ==
    OnSection /\ pos' > pos /\ SectionResult.ok =>
        /\ area'[SectionField] = SectionResult.val
        /\ \A f \in DOMAIN area \ {SectionField} : area'[f] = area[f]

\* the file is returned as the area stands when the scan ends
ReturnsArea == status = "done" /\ ret.tag = "Ok" => ret.area = area

\* C29: when a section kind occurs more than once before `#$`, the AreaFile
\* holds only the result of the last occurrence: each section parsed replaces
\* its field, nothing is appended, and the area is returned as it then stands.
C29_LastOccurrenceWins == [][SectionReplaces]_vars /\ []ReturnsArea

\* two rooms sections, the room #1 then the room #3: the file holds the latter
C29_Witness ==
    /\ entry = "parse_area_file"
    /\ status = "done"
    /\ lines = SecRooms \o SecRooms2 \o SecEnd
    /\ ret.tag = "Ok"
    /\ Len(ret.area.rooms) = 1
    /\ ret.area.rooms[1].vnum = 3

\* request r is at an exit in its second pass and takes its step
ExaminesExit(r) == At(r, "exits") /\ req'[r] # req[r]

\* the exit under examination is dropped: no row is inserted for it
ExitDropped == db'.exits = db.exits

\* the vnum lies in the range of an area the database knows
InKnownArea(vnum) == \E k \in 1..Len(db.areas) : db.areas[k].min_vnum <= vnum /\ vnum <= db.areas[k].max_vnum

\* the vnum lies in the range the header of the imported file gives
InOwnArea(r, vnum) == req[r].file.header.min_vnum <= vnum /\ vnum <= req[r].file.header.max_vnum

\* C25 (as claimed): the import drops an exit only when its to_room falls
\* outside the vnum range of every known area: an exit into the range of
\* another, already imported area is persisted, as is every exit into the
\* imported area's own range.
C25_DropsOnlyUnknownTargets ==
    [][\A r \in DOMAIN req :
         ExaminesExit(r) /\ ExitDropped =>
             ~InKnownArea(ExitAt(r).to_room) /\ ~InOwnArea(r, ExitAt(r).to_room)]_vars

\* C25 (amended): the import persists an exit exactly when its to_room lies in
\* the imported area's own range min_vnum..max_vnum; every other exit is
\* dropped, also one into the range of another, already imported area.
C25_DropsOutsideOwnRange ==
    [][\A r \in DOMAIN req :
         ExaminesExit(r) =>
             IF InOwnArea(r, ExitAt(r).to_room)
             THEN db'.exits = Append(db.exits, ExitRow(r))
             ELSE ExitDropped]_vars

\* the area a is on record and the import of n is through: of the exits of
\* room #1 the one to 2 is there, those to 3 (in a) and to 9 are not
C25_Witness ==
    /\ entry = "import_area_from_content"
    /\ \E k \in 1..Len(db.areas) : db.areas[k].name = <<"a">> /\ db.areas[k].min_vnum = 3
    /\ \E r \in DOMAIN req :
          /\ req[r].content = Content_n
          /\ req[r].outcome = "Imported"
          /\ req[r].exits_created = 1
    /\ \E k \in 1..Len(db.exits) :
          db.exits[k].from_room_id = <<"vnum_", 1>> /\ db.exits[k].to_room_id = <<"vnum_", 2>>
    /\ \A k \in 1..Len(db.exits) :
          db.exits[k].from_room_id = <<"vnum_", 1>> => db.exits[k].to_room_id = <<"vnum_", 2>>

\* C30: after any interleaving of import requests for the same area file at
\* most one area record of that name exists.
C30_OneRecordPerName ==
    \A k, l \in 1..Len(db.areas) : db.areas[k].name = db.areas[l].name => k = l

\* the smallest and the largest element of a set of numbers
Least(S) == CHOOSE k \in S : \A l \in S : k <= l

Greatest(S) == CHOOSE k \in S : \A l \in S : k >= l

\* the `#` lines among the eight lines after the header line h
RecordHashes(ls, h) == {k \in (h + 1)..(h + 8) : k <= Len(ls) /\ Trim(ls[k]) = <<"#">>}

\* the number of message lines the record of header line h has
MessageLines(ls, h) ==
    IF RecordHashes(ls, h) # {} THEN Least(RecordHashes(ls, h)) - h - 1
    ELSE IF Len(ls) - h < 8 THEN Len(ls) - h ELSE 8

\* the first line behind the record of header line h
RecordStop(ls, h) ==
    h + MessageLines(ls, h) + (IF RecordHashes(ls, h) # {} THEN 2 ELSE 1)

\* message slot k (1..8) of the record of header line h
MessageSlot(ls, h, k) ==
    IF k > MessageLines(ls, h) THEN <<>>
    ELSE IF Trim(ls[h + k]) \in {<<"$">>, <<>>} THEN <<>>
    ELSE ls[h + k]

\* the header lines of the records of a socials file, from line i on
RECURSIVE SocialHeaders(_, _)
SocialHeaders(ls, i) ==
    IF i > Len(ls) THEN {}
    ELSE IF StartsWith(Trim(ls[i]), M_ZERO) \/ StartsWith(Trim(ls[i]), M_END) THEN {}
    ELSE IF Trim(ls[i]) = <<>> \/ Trim(ls[i])[1] = "#" THEN SocialHeaders(ls, i + 1)
    ELSE {i} \cup SocialHeaders(ls, RecordStop(ls, i))

\* the first line behind the #SOCIALS line
AfterSocialsLine(ls) ==
    LET marks == {i \in 1..Len(ls) : StartsWith(ls[i], M_SOCIALS)} IN
    IF marks = {} THEN Len(ls) + 1 ELSE Least(marks) + 1

\* the name a record is stored under
SocialName(ls, h) == to_lowercase(split_whitespace(ls[h])[1])

\* C26: parse_socials gives every social exactly eight message slots filled in
\* file order from the lines after its header line: `$` or a blank line gives
\* an empty message, a line that is exactly `#` ends the record and leaves the
\* remaining slots empty; each record is stored under the lower-cased first
\* token of its header line, so that n records of distinct names give a map
\* of n entries.
C26_EightSlotsPerSocial ==
    entry = "parse_socials" /\ status = "done" =>
        \E heads \in {SocialHeaders(lines, AfterSocialsLine(lines))} :
            /\ ret.tag = "Ok"
            /\ DOMAIN ret.socials = {SocialName(lines, h) : h \in heads}
            /\ Cardinality(DOMAIN ret.socials)
                   = Cardinality({SocialName(lines, h) : h \in heads})
            /\ \A name \in DOMAIN ret.socials :
                  \E h \in {Greatest({g \in heads : SocialName(lines, g) = name})} :
                     /\ ret.socials[name].name = name
                     /\ ret.socials[name].messages =
                            [char_no_arg |-> MessageSlot(lines, h, 1),
                             others_no_arg |-> MessageSlot(lines, h, 2),
                             char_found |-> MessageSlot(lines, h, 3),
                             others_found |-> MessageSlot(lines, h, 4),
                             vict_found |-> MessageSlot(lines, h, 5),
                             char_not_found |-> MessageSlot(lines, h, 6),
                             char_auto |-> MessageSlot(lines, h, 7),
                             others_auto |-> MessageSlot(lines, h, 8)]

\* `Kiss` with three lines ended by `#`, then ` LAUGH  x ` with eight lines:
\* two entries, kiss and laugh
C26_Witness ==
    /\ entry = "parse_socials"
    /\ status = "done"
    /\ lines = <<M_SOCIALS, L_Kiss, L_m1, <<" ", "$", " ">>, L_m2, L_hash, <<>>,
                 L_LAUGH, L_m1, L_dollar, L_m3, L_m2, <<>>, L_m1, L_m2, L_m3, L_hash, M_ZERO>>
    /\ DOMAIN ret.socials = {<<"k", "i", "s", "s">>, <<"l", "a", "u", "g", "h">>}
    /\ ret.socials[<<"k", "i", "s", "s">>].messages.char_no_arg = L_m1
    /\ ret.socials[<<"k", "i", "s", "s">>].messages.others_no_arg = <<>>
    /\ ret.socials[<<"k", "i", "s", "s">>].messages.char_found = L_m2
    /\ ret.socials[<<"k", "i", "s", "s">>].messages.others_found = <<>>
    /\ ret.socials[<<"l", "a", "u", "g", "h">>].messages.others_auto = L_m3

\* the cursor a call that started at line p came back with is behind p when
\* the call succeeded, and nowhere in front of p when it failed
Consumes(r, p) == IF r.ok THEN r.pos > p ELSE r.pos >= p

\* each parser a loop calls on the line under its cursor takes that line, and
\* each loop hands the cursor back where it took it or further on
SubParsersAdvance ==
    entry = "parse_area_file" /\ status = "running" /\ pos = 1 =>
        \A p \in 1..Len(lines) :
            /\ Consumes(read_until_tilde(lines, p), p)
            /\ Consumes(parse_area_header(lines, p), p)
            /\ Consumes(parse_single_room(lines, p), p)
            /\ Consumes(parse_exit(lines, p), p)
            /\ Consumes(parse_extra_desc(lines, p), p)
            /\ Consumes(parse_single_object(lines, p), p)
            /\ RoomBodyLoop(lines, p, <<>>, <<>>, {}).pos >= p
            /\ parse_rooms(lines, p).pos >= p
            /\ ObjectTailLoop(lines, p, <<>>, {}).pos >= p
            /\ parse_objects(lines, p).pos >= p
            /\ parse_resets(lines, p).pos >= p

\* an iteration of the loop of parse_area_file takes a line or ends the loop,
\* and the cursor never goes back
DispatcherAdvances ==
    /\ pos' >= pos
    /\ status = "running" /\ status' = "running" => pos' > pos

\* C27: parse_area_file terminates on every finite input: the line cursor
\* only moves forward, and every iteration of the dispatcher loop and of each
\* sub-parser loop (rooms, room body, objects, object tail, resets, tilde
\* string) consumes at least one line or leaves the loop.
C27_Terminates ==
    /\ [][DispatcherAdvances]_vars
    /\ []SubParsersAdvance
    /\ <>(status = "done")

\* the call has returned with the cursor behind the last line of a file of
\* all four sections
C27_Witness ==
    /\ entry = "parse_area_file"
    /\ status = "done"
    /\ ret.tag = "Ok"
    /\ pos = Len(lines) + 1
    /\ Len(lines) > 20
    /\ ret.area.rooms # <<>>
    /\ ret.area.objects # <<>>

====
